---------------------------- MODULE Spec2Model ----------------------------
(***************************************************************************)
(* A model of the content synthesis pipeline of ai-seo-content-agent:      *)
(* the ResearchAgent (both classes of src/src/agents/ResearchAgent.ts: the *)
(* simplified one of lines 22-339 and the enhanced one of lines 361-1063), *)
(* the GenerationAgent word-count retry, the JSON extractor and the        *)
(* generate route.                                                         *)
(*                                                                         *)
(* Text is a sequence of one-character strings, so that toLowerCase, trim, *)
(* split and includes are computed and not assumed.                        *)
(***************************************************************************)
EXTENDS Integers, Sequences, FiniteSets, TLC

VARIABLES
    variant,        \* which ResearchAgent class runs: "simple" | "enhanced"
    now,            \* Date.now(), in milliseconds
    ticks,          \* how often the clock has advanced
    researchCache,  \* ResearchAgent.researchCache: Map<string, CachedResearch>
    rcall,          \* per caller: the researchTopic invocation in progress
    started,        \* researchTopic calls started so far
    fanout,         \* one parallelSearch: the state of each provider call
    summ,           \* one summarizeWithAttribution call
    gen,            \* one generateContentFromOutline / generateContent run
    parse,          \* one safeParseJSON call
    route,          \* one POST /api/content/generate request
    keying,         \* one comparison of two generateCacheKey calls
    plan,           \* one generateStrategicQueries call
    ranking,        \* one rankAndFilterSources call
    seo,            \* one SEOAgent.analyzeContent call
    process,        \* the server process: its generate requests and their agents
    service         \* the OpenAIService: its request queue and its drain

researchVars == <<variant, now, ticks, researchCache, rcall, started>>

\* the components of the specifications of single functions and of the process
otherVars == <<keying, plan, ranking, seo, process, service>>

vars == <<variant, now, ticks, researchCache, rcall, started, fanout, summ, gen, parse, route,
          keying, plan, ranking, seo, process, service>>

\* a component that takes no part in a specification stays off
Off == [pc |-> "off"]

OthersOff ==
    keying = Off /\ plan = Off /\ ranking = Off /\ seo = Off /\ process = Off /\ service = Off

-----------------------------------------------------------------------------
(* Bounds of the model *)

MaxTicks == 2
MaxCalls == 2
PlanLen == 1
MaxWrap == 2
MaxQueries == 3
MaxEdits == 2
MaxRequests == 2

-----------------------------------------------------------------------------
(* Strings *)

Lower(ch) ==
    CASE ch = "A" -> "a"
      [] ch = "B" -> "b"
      [] ch = "S" -> "s"
      [] OTHER -> ch

\* String.prototype.toLowerCase
toLowerCase(s) == [i \in 1..Len(s) |-> Lower(s[i])]

IsSpace(ch) == ch = " "

RECURSIVE TrimStart(_)
TrimStart(s) ==
    IF s # <<>> /\ IsSpace(Head(s)) THEN TrimStart(Tail(s)) ELSE s

RECURSIVE TrimEnd(_)
TrimEnd(s) ==
    IF s # <<>> /\ IsSpace(s[Len(s)]) THEN TrimEnd(SubSeq(s, 1, Len(s) - 1)) ELSE s

\* String.prototype.trim
trim(s) == TrimEnd(TrimStart(s))

\* UTF-16 code units of the characters the model uses
CharCode(ch) ==
    CASE ch = " " -> 32
      [] ch = "," -> 44
      [] ch = ":" -> 58
      [] ch = "A" -> 65
      [] ch = "B" -> 66
      [] ch = "S" -> 83
      [] ch = "a" -> 97
      [] ch = "b" -> 98
      [] ch = "e" -> 101
      [] ch = "o" -> 111
      [] ch = "s" -> 115
      [] OTHER -> 120

\* a < b in the order Array.prototype.sort uses by default (code units)
RECURSIVE StrLess(_, _)
StrLess(a, b) ==
    IF a = <<>> THEN b # <<>>
    ELSE IF b = <<>> THEN FALSE
    ELSE IF CharCode(Head(a)) # CharCode(Head(b))
         THEN CharCode(Head(a)) < CharCode(Head(b))
         ELSE StrLess(Tail(a), Tail(b))

\* insertion of x into a list sorted by StrLess, after its equals (stable)
RECURSIVE InsertSorted(_, _)
InsertSorted(x, l) ==
    IF l = <<>> THEN <<x>>
    ELSE IF StrLess(x, Head(l)) THEN <<x>> \o l
    ELSE <<Head(l)>> \o InsertSorted(x, Tail(l))

\* Array.prototype.sort() with the default comparator
RECURSIVE SortStrings(_)
SortStrings(l) ==
    IF l = <<>> THEN <<>>
    ELSE InsertSorted(l[Len(l)], SortStrings(SubSeq(l, 1, Len(l) - 1)))

\* Array.prototype.join
RECURSIVE Join(_, _)
Join(l, sep) ==
    IF l = <<>> THEN <<>>
    ELSE IF Len(l) = 1 THEN l[1]
    ELSE l[1] \o sep \o Join(Tail(l), sep)

\* String.prototype.split(' ')
RECURSIVE SplitSpace(_, _)
SplitSpace(s, cur) ==
    IF s = <<>> THEN <<cur>>
    ELSE IF Head(s) = " " THEN <<cur>> \o SplitSpace(Tail(s), <<>>)
    ELSE SplitSpace(Tail(s), Append(cur, Head(s)))

split(s) == SplitSpace(s, <<>>)

\* String.prototype.includes
includes(s, sub) ==
    \E i \in 1..(Len(s) - Len(sub) + 1) : SubSeq(s, i, i + Len(sub) - 1) = sub

\* Array.prototype.flat on a list of lists
RECURSIVE Flat(_)
Flat(ll) == IF ll = <<>> THEN <<>> ELSE Head(ll) \o Flat(Tail(ll))

\* Array.prototype.slice(0, n)
Slice(l, n) == SubSeq(l, 1, IF Len(l) < n THEN Len(l) ELSE n)

Min(a, b) == IF a < b THEN a ELSE b

-----------------------------------------------------------------------------
(* The research cache *)

CACHE_TTL == 24 * 60 * 60 * 1000

\* the key without the sort of the keywords (a mutation of generateCacheKey)
generateCacheKey_Unsorted(topic, keywords) ==
    trim(toLowerCase(topic)) \o <<":">>
      \o Join([i \in 1..Len(keywords) |-> trim(toLowerCase(keywords[i]))], <<",">>)

\* generateCacheKey(topic, keywords)
generateCacheKey(topic, keywords) ==
    LET normalizedTopic == trim(toLowerCase(topic))
        normalizedKeywords ==
            Join(SortStrings([i \in 1..Len(keywords) |-> trim(toLowerCase(keywords[i]))]),
                 <<",">>)
    IN  normalizedTopic \o <<":">> \o normalizedKeywords

NoEntry == [none |-> TRUE]

\* Map.get
CacheGet(cache, cacheKey) ==
    IF cacheKey \in DOMAIN cache THEN cache[cacheKey] ELSE NoEntry

\* Map.delete
CacheDelete(cache, cacheKey) ==
    [k \in (DOMAIN cache) \ {cacheKey} |-> cache[k]]

\* Map.set
CacheSet(cache, cacheKey, entry) ==
    [k \in (DOMAIN cache) \cup {cacheKey} |-> IF k = cacheKey THEN entry ELSE cache[k]]

\* Map.clear
CacheClear(cache) == [k \in {} |-> NoEntry]

\* the test without its expiry (a mutation of CacheFresh)
CacheFresh_NoExpiry(cached, t) == cached # NoEntry

\* the test with an entry of age ttl still fresh (a mutation of CacheFresh)
CacheFresh_AtTtl(cached, t) ==
    cached # NoEntry /\ t - cached.timestamp <= cached.ttl

\* the test of getCachedResearch: cached && Date.now() - cached.timestamp < cached.ttl
CacheFresh(cached, t) ==
    cached # NoEntry /\ t - cached.timestamp < cached.ttl

\* getCachedResearch: what it returns (NoEntry for null) ...
getCachedResearch(cache, cacheKey, t) ==
    IF CacheFresh(CacheGet(cache, cacheKey), t)
    THEN CacheGet(cache, cacheKey)
    ELSE NoEntry

\* ... and the cache it leaves: a miss deletes the key
CacheAfterGet(cache, cacheKey, t) ==
    IF CacheFresh(CacheGet(cache, cacheKey), t)
    THEN cache
    ELSE CacheDelete(cache, cacheKey)

\* a write that leaves an entry the key already has
cacheResearch_KeepFirst(cache, cacheKey, summaries, t) ==
    IF cacheKey \in DOMAIN cache THEN cache
    ELSE CacheSet(cache, cacheKey,
                  [topic |-> cacheKey, timestamp |-> t,
                   ttl |-> CACHE_TTL, summaries |-> summaries])

\* cacheResearch
cacheResearch(cache, cacheKey, summaries, t) ==
    CacheSet(cache, cacheKey,
             [topic |-> cacheKey, timestamp |-> t,
              ttl |-> CACHE_TTL, summaries |-> summaries])

-----------------------------------------------------------------------------
(* Model output as text.  A response is a sequence of tokens: the markdown  *)
(* fences, whitespace, a control character, braces, prose, the JSON         *)
(* literals null and a number, and the member list of an object ("body").  A body carries the     *)
(* fields it would parse to and the state of its string quoting:            *)
(*   "ok"   valid JSON members                                              *)
(*   "esc"  every quote backslash-escaped (\"title\":\"A\")                 *)
(*   "nl"   a raw line break inside the content string, between two words   *)
(*   "bad"  a string cut short or holding an unescaped quote                *)

TFence == [t |-> "fence_json"]   \* the text ```json
TTick  == [t |-> "fence"]        \* the text ```
TSp    == [t |-> "sp"]
TNl    == [t |-> "nl"]
TCtl   == [t |-> "ctl"]
TOpen  == [t |-> "{"]
TClose == [t |-> "}"]
TProse == [t |-> "prose"]
TNull  == [t |-> "null"]         \* the JSON literal null
TNum   == [t |-> "number"]       \* a JSON number other than 0
Body(q, f) == [t |-> "body", q |-> q, f |-> f]

\* JavaScript values of the fields: ty is the type, x the payload (a number,
\* the identity of a string with 0 the empty string, the length of an array;
\* for a content string x is its number of words)
Str(x) == [x |-> x, ty |-> "str"]
Num(x) == [x |-> x, ty |-> "num"]
Arr(x) == [x |-> x, ty |-> "arr"]
JsNull == [x |-> 0, ty |-> "null"]
Undefined == [x |-> 0, ty |-> "undefined"]

\* ToBoolean
Truthy(v) ==
    \/ v.ty = "str" /\ v.x # 0
    \/ v.ty = "num" /\ v.x # 0
    \/ v.ty = "arr"

\* a || b
OrElse(a, b) == IF Truthy(a) THEN a ELSE b

IsWs(tok) == tok.t \in {"sp", "nl"}
IsControl(tok) == tok.t \in {"nl", "ctl"}

RECURSIVE DropWsStart(_)
DropWsStart(s) == IF s # <<>> /\ IsWs(Head(s)) THEN DropWsStart(Tail(s)) ELSE s

RECURSIVE DropWsEnd(_)
DropWsEnd(s) ==
    IF s # <<>> /\ IsWs(s[Len(s)]) THEN DropWsEnd(SubSeq(s, 1, Len(s) - 1)) ELSE s

\* String.prototype.trim on a response
TrimText(s) == DropWsEnd(DropWsStart(s))

\* indexOf('{') and lastIndexOf('}'), 0 for -1
FirstOpen(s) ==
    IF \E i \in 1..Len(s) : s[i] = TOpen
    THEN CHOOSE i \in 1..Len(s) : s[i] = TOpen /\ \A j \in 1..(i - 1) : s[j] # TOpen
    ELSE 0

LastClose(s) ==
    IF \E i \in 1..Len(s) : s[i] = TClose
    THEN CHOOSE i \in 1..Len(s) : s[i] = TClose /\ \A j \in (i + 1)..Len(s) : s[j] # TClose
    ELSE 0

\* replace(/```json\s*/g, ''): every ```json and the whitespace after it
RECURSIVE StripFencesAll(_)
StripFencesAll(s) ==
    IF s = <<>> THEN <<>>
    ELSE IF Head(s) = TFence THEN StripFencesAll(DropWsStart(Tail(s)))
    ELSE <<Head(s)>> \o StripFencesAll(Tail(s))

\* replace(/```\s*$/g, ''): a ``` followed only by whitespace, at the end
StripTickEnd(s) ==
    LET e == DropWsEnd(s)
    IN  IF e # <<>> /\ e[Len(e)] = TTick THEN SubSeq(e, 1, Len(e) - 1) ELSE s

\* ResearchAgent.cleanJSONResponse
cleanJSONResponse(response) ==
    LET cleaned == TrimText(StripTickEnd(StripFencesAll(response)))
        fromOpen == IF cleaned # <<>> /\ Head(cleaned) = TOpen THEN cleaned
                    ELSE IF FirstOpen(cleaned) # 0
                         THEN SubSeq(cleaned, FirstOpen(cleaned), Len(cleaned))
                         ELSE cleaned
    IN  IF fromOpen # <<>> /\ fromOpen[Len(fromOpen)] = TClose THEN fromOpen
        ELSE IF LastClose(fromOpen) # 0 THEN SubSeq(fromOpen, 1, LastClose(fromOpen))
        ELSE fromOpen

ParseError == [f |-> <<>>, kind |-> "error"]
ParsedNull == [f |-> <<>>, kind |-> "null"]
ParsedNumber == [f |-> <<>>, kind |-> "number"]
ParsedObject(f) == [f |-> f, kind |-> "object"]

NotWs(tok) == ~IsWs(tok)

\* JSON.parse: whitespace is allowed around and between the tokens; the text
\* is the literal null, a number, or an object whose member list is empty or
\* valid
JSONparse(s) ==
    LET core == SelectSeq(s, NotWs)
    IN  IF core = <<TNull>> THEN ParsedNull
        ELSE IF core = <<TNum>> THEN ParsedNumber
        ELSE IF core = <<TOpen, TClose>> THEN ParsedObject(<<>>)
        ELSE IF /\ Len(core) = 3
                /\ core[1] = TOpen
                /\ core[3] = TClose
                /\ core[2].t = "body"
                /\ core[2].q = "ok"
             THEN ParsedObject(core[2].f)
        ELSE ParseError

\* parsed.name, undefined when the object has no such field
Field(parsed, name) ==
    IF name \in DOMAIN parsed.f THEN parsed.f[name] ELSE Undefined

-----------------------------------------------------------------------------
(* The JSON extractors of the generation agents *)

\* the argument of an extractor: a string, or a value that is none (null,
\* undefined)
RawText(text) == [text |-> text, isString |-> TRUE]
NotAString == [text |-> <<>>, isString |-> FALSE]

\* replace(/^```json\s*/, ''): a leading ```json and the whitespace after it
StripFenceStart(s) ==
    IF s # <<>> /\ Head(s) = TFence THEN DropWsStart(Tail(s)) ELSE s

\* replace(/\s*```$/, ''): a closing ``` at the very end and the whitespace
\* before it
StripFenceEnd(s) ==
    IF s # <<>> /\ s[Len(s)] = TTick THEN DropWsEnd(SubSeq(s, 1, Len(s) - 1)) ELSE s

\* a string of n words (n > 0) after a line break between two of them is
\* deleted: the two words become one
FuseWords(v) == IF v.ty = "str" /\ v.x > 1 THEN [v EXCEPT !.x = @ - 1] ELSE v

\* replace(/[\x00-\x1F\x7F]/g, '') and the three replaces after it: control
\* characters go, line breaks included, those inside a string too
RemoveControl(s) ==
    LET kept == SelectSeq(s, LAMBDA tok : ~IsControl(tok))
    IN  [i \in 1..Len(kept) |->
            IF kept[i].t = "body" /\ kept[i].q = "nl"
            THEN Body("ok", [n \in DOMAIN kept[i].f |->
                                IF n = "content" THEN FuseWords(kept[i].f[n])
                                ELSE kept[i].f[n]])
            ELSE kept[i]]

\* cleaned.match(/\{[\s\S]*\}/): from the first { to the last } after it
MatchBraces(s) ==
    IF FirstOpen(s) # 0 /\ LastClose(s) > FirstOpen(s)
    THEN SubSeq(s, FirstOpen(s), LastClose(s))
    ELSE s

\* replace(/(?<!\\)"/g, '\\"').replace(/\\"/g, '"'): every quote is escaped,
\* then every escaped quote is unescaped, so \" becomes " and " stays
FixQuotes(s) ==
    [i \in 1..Len(s) |->
        IF s[i].t = "body" /\ s[i].q = "esc" THEN Body("ok", s[i].f) ELSE s[i]]

\* the validation without its test of content (a mutation of
\* validateParsedData)
validateParsedData_TitleOnly(parsed, context) ==
    IF context \notin {"Content", "SEO"} THEN "true"
    ELSE IF parsed.kind = "null" THEN "TypeError"
    ELSE IF ~Truthy(Field(parsed, "title")) THEN "false"
    ELSE "true"

\* validateParsedData(parsed, context): "true", "false", or "TypeError" when
\* a property of null is read
validateParsedData(parsed, context) ==
    IF context \notin {"Content", "SEO"} THEN "true"
    ELSE IF parsed.kind = "null" THEN "TypeError"
    ELSE IF ~Truthy(Field(parsed, "title")) \/ ~Truthy(Field(parsed, "content"))
    THEN "false"
    ELSE IF context = "SEO" /\ Field(parsed, "seo_score").ty # "num" THEN "false"
    ELSE "true"

\* what a function call ends with: a returned value or an exception
Returns(v) == [threw |-> FALSE, value |-> v]
Throws == [threw |-> TRUE, value |-> ParsedNull]

\* the body of the outer try of safeParseJSON: JSON.parse, then the validation
ParseAndValidate(cleaned, context) ==
    LET parsed == JSONparse(cleaned)
    IN  IF parsed = ParseError THEN Throws
        ELSE IF validateParsedData(parsed, context) = "TypeError" THEN Throws
        ELSE IF validateParsedData(parsed, context) = "false" THEN Returns(ParsedNull)
        ELSE Returns(parsed)

\* the body of the inner try, on the text with its quotes fixed; leaving it
\* without a return ends in the return null after it
ParseFixed(fixed, context) ==
    LET parsed == JSONparse(fixed)
    IN  IF parsed = ParseError THEN Throws
        ELSE IF validateParsedData(parsed, context) = "TypeError" THEN Throws
        ELSE IF validateParsedData(parsed, context) = "true" THEN Returns(parsed)
        ELSE Returns(ParsedNull)

\* GenerationAgent.safeParseJSON(raw, context): the parsed value, or null
safeParseJSON(raw, context) ==
    IF ~raw.isString \/ raw.text = <<>> THEN Returns(ParsedNull)
    ELSE LET cleaned ==
                 MatchBraces(RemoveControl(StripFenceEnd(StripFenceStart(
                     TrimText(raw.text)))))
             first == ParseAndValidate(cleaned, context)
             second == ParseFixed(FixQuotes(cleaned), context)
         IN  IF ~first.threw THEN first
             ELSE IF ~second.threw THEN second
             ELSE Returns(ParsedNull)

\* ContentAgent.safeParseJSON(jsonString, context): everything runs inside
\* one try whose catch returns null
ContentAgent_safeParseJSON(jsonString, context) ==
    IF ~jsonString.isString THEN Returns(ParsedNull)
    ELSE LET parsed == JSONparse(cleanJSONResponse(jsonString.text))
         IN  IF parsed \in {ParseError, ParsedNull} THEN Returns(ParsedNull)
             ELSE IF ~Truthy(Field(parsed, "content")) \/ ~Truthy(Field(parsed, "title"))
             THEN Returns(ParsedNull)
             ELSE Returns(parsed)

\* a string of whitespace only: truthy, and without a word
BlankStr == Str(0 - 1)

\* GenerationAgent.countWords(text): text.split(/\s+/).filter(w => w.length > 0).length;
\* reading split of what is not a string is a TypeError
countWords(text) ==
    IF text.ty # "str" THEN [threw |-> TRUE, value |-> 0]
    ELSE [threw |-> FALSE, value |-> IF text.x < 0 THEN 0 ELSE text.x]

\* ContentAgent.countWords(text): text.trim().split(/\s+/).length, which is 1
\* for the empty and the blank string
ContentAgent_countWords(text) ==
    IF text.ty # "str" THEN [threw |-> TRUE, value |-> 0]
    ELSE [threw |-> FALSE, value |-> IF text.x <= 0 THEN 1 ELSE text.x]

-----------------------------------------------------------------------------
(* Search hits and the source score *)

\* Strings of the source, as sequences of characters
Chars_saas == <<"s", "a", "a", "s">>
Chars_b2b == <<"b", "2", "b">>
Chars_seo == <<"s", "e", "o">>

DayMs == 1000 * 60 * 60 * 24

\* A link is known by its identity (0: the hit has no link) and by the
\* substrings the scorer looks for that it contains
Link(id, has) == [id |-> id, has |-> has]
NoLink == Link(0, {})

\* The date of a hit is the number of whole days between its publication and
\* time 0 of the model (milliseconds of years overflow the checker's integers);
\* NoDate is a hit without a date, or with one Date cannot read
NoDate == 0 - 1

\* the first entries of authoritativeDomains, in the order of the table
authoritativeDomains ==
    << <<"forbes.com", 95>>, <<"hbr.org", 95>>, <<"techcrunch.com", 90>>,
       <<"wired.com", 90>>, <<"marketingweek.com", 85>>, <<"hubspot.com", 80>>,
       <<"producthunt.com", 75>>, <<"indeed.com", 70>> >>

businessTechDomains == {".com", ".org", ".net", ".io", ".co"}

\* the loop over authoritativeDomains: the score of the first domain the link includes
DomainScore(link) ==
    LET hit == {i \in 1..Len(authoritativeDomains) : authoritativeDomains[i][1] \in link.has}
    IN  IF hit = {} THEN 0
        ELSE authoritativeDomains[CHOOSE i \in hit : \A j \in hit : i <= j][2]

b2bSaaSKeywords ==
    { Chars_b2b, Chars_saas,
      <<"e", "n", "t", "e", "r", "p", "r", "i", "s", "e">>,
      <<"b", "u", "s", "i", "n", "e", "s", "s">>,
      <<"c", "u", "s", "t", "o", "m", "e", "r", " ", "s", "u", "p", "p", "o", "r", "t">>,
      <<"c", "u", "s", "t", "o", "m", "e", "r", " ", "s", "e", "r", "v", "i", "c", "e">>,
      <<"a", "u", "t", "o", "m", "a", "t", "i", "o", "n">>,
      <<"p", "l", "a", "t", "f", "o", "r", "m">> }

\* isB2BSaaSTopic
isB2BSaaSTopic(topic) ==
    \E kw \in b2bSaaSKeywords : includes(toLowerCase(topic), kw)

LongWord(w) == Len(w) > 2

\* topic.toLowerCase().split(' ').filter(word => word.length > 2)
TopicWords(topic) == SelectSeq(split(toLowerCase(topic)), LongWord)

\* Math.ceil(n * 3 / 10) and Math.ceil(n / 10) for n >= 0
Ceil30(n) == (3 * n + 9) \div 10
Ceil10(n) == (n + 9) \div 10

\* calculateSourceScore(result, topic) at time t
calculateSourceScore(result, topic, t) ==
    LET authority == DomainScore(result.link)
        base == IF authority = 0 /\ (result.link.has \cap businessTechDomains) # {}
                THEN 50 ELSE authority
        \* (Date.now() - new Date(result.date).getTime()) / DayMs, rounded down:
        \* x < 365 for a real x is Floor(x) < 365
        daysSincePublication == result.date + t \div DayMs
        recency == IF result.date = NoDate THEN 0
                   ELSE IF daysSincePublication < 365 THEN 20
                   ELSE IF daysSincePublication < 730 THEN 10
                   ELSE 0
        topicWords == TopicWords(topic)
        titleWords == IF result.hasTitle THEN split(toLowerCase(result.title)) ELSE <<>>
        matching == {i \in 1..Len(topicWords) :
                        \E j \in 1..Len(titleWords) :
                            \/ includes(titleWords[j], topicWords[i])
                            \/ includes(topicWords[i], titleWords[j])}
        titleScore == IF Cardinality(matching) >= Ceil30(Len(topicWords)) THEN 20
                      ELSE IF Cardinality(matching) >= Ceil10(Len(topicWords)) THEN 10
                      ELSE 0
        snippetScore == IF result.snippetLen > 100 THEN 10 ELSE 0
        b2b == IF isB2BSaaSTopic(topic) /\ result.b2bWords THEN 15 ELSE 0
    IN  Min(base + recency + titleScore + snippetScore + b2b, 100)

\* a sort that puts a hit before the earlier hits of the same score
RECURSIVE InsertDesc_Unstable(_, _)
InsertDesc_Unstable(x, l) ==
    IF l = <<>> THEN <<x>>
    ELSE IF Head(l).k <= x.k THEN <<x>> \o l
    ELSE <<Head(l)>> \o InsertDesc_Unstable(x, Tail(l))

\* Array.prototype.sort((a, b) => b.k - a.k): descending by k, stable
RECURSIVE InsertDesc(_, _)
InsertDesc(x, l) ==
    IF l = <<>> THEN <<x>>
    ELSE IF Head(l).k < x.k THEN <<x>> \o l
    ELSE <<Head(l)>> \o InsertDesc(x, Tail(l))

RECURSIVE SortDesc(_)
SortDesc(l) ==
    IF l = <<>> THEN <<>>
    ELSE InsertDesc(l[Len(l)], SortDesc(SubSeq(l, 1, Len(l) - 1)))

\* a ranking whose fallback lets every hit above 5 through
rankAndFilterSources_Relaxed(results, topic, t) ==
    LET scoredResults ==
            [i \in 1..Len(results) |->
                [k |-> calculateSourceScore(results[i], topic, t), v |-> results[i]]]
        Above25(r) == r.k > 25
        Above5(r) == r.k > 5
        filteredResults == Slice(SortDesc(SelectSeq(scoredResults, Above25)), 8)
        fallbackResults == Slice(SortDesc(SelectSeq(scoredResults, Above5)), 6)
        chosen == IF Len(filteredResults) < 3 /\ Len(scoredResults) > 0
                  THEN fallbackResults ELSE filteredResults
    IN  [i \in 1..Len(chosen) |-> chosen[i].v]

\* rankAndFilterSources(results, topic) at time t
rankAndFilterSources(results, topic, t) ==
    LET scoredResults ==
            [i \in 1..Len(results) |->
                [k |-> calculateSourceScore(results[i], topic, t), v |-> results[i]]]
        Above25(r) == r.k > 25
        Above15(r) == r.k > 15
        filteredResults == Slice(SortDesc(SelectSeq(scoredResults, Above25)), 8)
        fallbackResults == Slice(SortDesc(SelectSeq(scoredResults, Above15)), 6)
        chosen == IF Len(filteredResults) < 3 /\ Len(scoredResults) > 0
                  THEN fallbackResults ELSE filteredResults
    IN  [i \in 1..Len(chosen) |-> chosen[i].v]

-----------------------------------------------------------------------------
(* The search fan-out *)

\* What the provider answers to one query: an error (the request fails, or
\* the body carries data.error), or organic_results (absent counts as empty)
SearchError == [error |-> TRUE, organic |-> <<>>]
Organic(hits) == [error |-> FALSE, organic |-> hits]

\* searchSerpAPI: the catch turns every failure into []
searchSerpAPI(outcome) == IF outcome.error THEN <<>> ELSE outcome.organic

\* an entry of organic_results that is null
NullHit == [link |-> NoLink, date |-> NoDate, hasTitle |-> FALSE, title |-> <<>>,
            snippetLen |-> 0, b2bWords |-> FALSE, isNull |-> TRUE, titleIsString |-> TRUE]

Hit(link, date, title, snippetLen) ==
    [link |-> link, date |-> date, hasTitle |-> TRUE, title |-> title, snippetLen |-> snippetLen,
     b2bWords |-> FALSE, isNull |-> FALSE, titleIsString |-> TRUE]

\* result && result.link
HasLink(result) == ~result.isNull /\ result.link.id # 0

NotNull(result) == ~result.isNull

\* a fan-out that gives up the whole batch when one provider call fails
parallelSearch_AllOrNothing(v, outcomes) ==
    IF \E q \in 1..Len(outcomes) : outcomes[q].error THEN <<>>
    ELSE LET results == [q \in 1..Len(outcomes) |-> outcomes[q].organic]
         IN  IF v = "simple" THEN SelectSeq(Flat(results), HasLink)
             ELSE SelectSeq(Flat(results), NotNull)

\* a fan-out that flattens the answers from the last query to the first
parallelSearch_LastFirst(v, outcomes) ==
    LET results == [q \in 1..Len(outcomes) |->
                       searchSerpAPI(outcomes[Len(outcomes) + 1 - q])]
    IN  IF v = "simple" THEN SelectSeq(Flat(results), HasLink)
        ELSE SelectSeq(Flat(results), NotNull)

\* parallelSearch(queries) given the outcome of each query, in plan order
parallelSearch(v, outcomes) ==
    LET results == [q \in 1..Len(outcomes) |-> searchSerpAPI(outcomes[q])]
    IN  IF v = "simple" THEN SelectSeq(Flat(results), HasLink)
        ELSE SelectSeq(Flat(results), NotNull)

-----------------------------------------------------------------------------
(* Summarization *)

Null == [isNull |-> TRUE]

\* What the summarization of one source meets: the page fetch of the enhanced
\* class ("ok": more than 200 characters, "short": less or a failed fetch),
\* then the chat completion ("throw", or "text" with the message content,
\* <<>> for none)
ModelThrow(fetch) == [kind |-> "throw", text |-> <<>>, fetch |-> fetch]
ModelText(fetch, text) == [kind |-> "text", text |-> text, fetch |-> fetch]

SummaryFields == {"title", "url", "key_points", "expert_quotes", "data_points",
                  "relevance_score", "source_authority"}

\* the object literal of summarizeWithAttribution
SummaryOf(summary, publication_date) ==
    [title |-> Field(summary, "title"),
     isNull |-> FALSE,
     publication_date |-> publication_date,
     url |-> Field(summary, "url"),
     key_points |-> OrElse(Field(summary, "key_points"), Arr(0)),
     expert_quotes |-> OrElse(Field(summary, "expert_quotes"), Arr(0)),
     data_points |-> OrElse(Field(summary, "data_points"), Arr(0)),
     relevance_score |-> OrElse(Field(summary, "relevance_score"), Num(80)),
     source_authority |-> OrElse(Field(summary, "source_authority"), Str(1))]

\* new Date().toISOString().split('T')[0]: the day of t
Today(t) == Str(1 + t \div DayMs)

\* summarizeWithAttribution(result, topic) of either class, given the model's answer
summarizeWithAttribution(v, resp, source, t) ==
    IF resp.kind = "throw" \/ resp.text = <<>> THEN Null
    ELSE LET summary == JSONparse(cleanJSONResponse(resp.text))
         IN  IF summary.kind \in {"error", "null"} THEN Null
             ELSE SummaryOf(summary,
                            IF v = "simple" THEN Today(t)
                            ELSE IF source.date = NoDate THEN Undefined
                            ELSE Num(source.date))

\* the relevance_score the comparator of the sorts subtracts (NaN compares as 0)
Relevance(summary) ==
    IF summary.relevance_score.ty = "num" THEN summary.relevance_score.x ELSE 0

SortByRelevance(summaries) ==
    LET keyed == SortDesc([i \in 1..Len(summaries) |->
                              [k |-> Relevance(summaries[i]), v |-> summaries[i]]])
    IN  [i \in 1..Len(keyed) |-> keyed[i].v]

IsSummary(x) == ~x.isNull

\* summarizeResults(results, topic) of the simplified class
summarizeResults(responses, results, t) ==
    LET sources == Slice(results, 8)
        summaries == [i \in 1..Len(sources) |->
                         summarizeWithAttribution("simple", responses[i], sources[i], t)]
    IN  SortByRelevance(SelectSeq(summaries, IsSummary))

\* extractContentWithAttribution(sources, topic) of the enhanced class; the
\* fetch of a source without a link fails (fetchContent returns '')
extractContentWithAttribution(responses, sources, t) ==
    LET results == [i \in 1..Len(sources) |->
                       IF responses[i].fetch = "ok" /\ sources[i].link.id # 0
                       THEN summarizeWithAttribution("enhanced", responses[i], sources[i], t)
                       ELSE Null]
    IN  SelectSeq(results, IsSummary)

\* filter((summary, index, self) => index === self.findIndex(s => s.url === summary.url))
UniqueByUrl(l) ==
    LET keep == {i \in 1..Len(l) : \A j \in 1..(i - 1) : l[j].url # l[i].url}
        F[i \in 0..Len(l)] ==
            IF i = 0 THEN <<>>
            ELSE IF i \in keep THEN Append(F[i - 1], l[i]) ELSE F[i - 1]
    IN  F[Len(l)]

\* enhanceSummaries
enhanceSummaries(summaries) ==
    IF Len(summaries) = 0 THEN summaries
    ELSE Slice(UniqueByUrl(SortByRelevance(summaries)), 5)

\* createBasicFallbackResearch: the one hardcoded summary
createBasicFallbackResearch(t) ==
    << [title |-> Str(901), isNull |-> FALSE, publication_date |-> Today(t), url |-> Str(902),
        key_points |-> Arr(5), expert_quotes |-> Arr(3), data_points |-> Arr(3),
        relevance_score |-> Num(85), source_authority |-> Str(903)] >>

\* one element of the fallbackResearch of handleResearchFailure, for an item
\* of research_summaries that has none of the fields
FallbackSummary(t) ==
    [title |-> Str(911), isNull |-> FALSE, publication_date |-> Today(t), url |-> Str(912),
     key_points |-> Arr(0), expert_quotes |-> Arr(0), data_points |-> Arr(0),
     relevance_score |-> Num(85), source_authority |-> Str(1)]

\* handleResearchFailure of the enhanced class, given the model's answer; the
\* array research_summaries is known by its length
handleResearchFailure(resp, t) ==
    IF resp.kind = "throw" \/ resp.text = <<>> THEN createBasicFallbackResearch(t)
    ELSE LET parsed == JSONparse(cleanJSONResponse(resp.text))
         IN  IF parsed.kind # "object" \/ Field(parsed, "research_summaries").ty # "arr"
             THEN createBasicFallbackResearch(t)
             ELSE [i \in 1..Field(parsed, "research_summaries").x |-> FallbackSummary(t)]

-----------------------------------------------------------------------------
(* researchTopic on one ResearchAgent *)

Callers == {"r1"}

Requests ==
    { [topic |-> <<"S", "e", "o">>, keywords |-> <<>>],
      [topic |-> <<" ", "s", "e", "o">>, keywords |-> <<>>],
      [topic |-> <<"A", "i">>, keywords |-> << <<"B">>, <<"a", " ">> >>] }

hTop == Hit(Link(1, {"forbes.com", ".com", ".co"}), 10, Chars_seo, 150)
hWeak == Hit(Link(2, {}), NoDate, <<"b">>, 20)
hNoLink == Hit(NoLink, NoDate, Chars_seo, 150)
hBadTitle == [Hit(Link(3, {".io"}), NoDate, <<>>, 20) EXCEPT !.titleIsString = FALSE]

SearchOutcomes ==
    { SearchError, Organic(<<>>), Organic(<<hTop, hWeak, NullHit, hNoLink>>),
      Organic(<<hBadTitle>>) }

FullBody ==
    Body("ok", [title |-> Str(5), url |-> Str(1), key_points |-> Arr(3),
                expert_quotes |-> Arr(1), data_points |-> Arr(1),
                relevance_score |-> Num(90), source_authority |-> Str(2)])

GoodText == <<TFence, TNl, TOpen, FullBody, TClose, TNl, TTick>>
PartialText == <<TProse, TOpen, Body("ok", [title |-> Str(6)]), TClose>>
CutText == <<TOpen, Body("bad", [title |-> Str(5)])>>

SummaryResponses ==
    { ModelText("ok", GoodText), ModelThrow("ok"), ModelText("short", GoodText) }

FallbackResponses ==
    { ModelThrow("ok"),
      ModelText("ok", <<TOpen, Body("ok", [research_summaries |-> Arr(2)]), TClose>>) }

IdleCall ==
    [pc |-> "idle", topic |-> <<>>, keywords |-> <<>>, result |-> <<>>, sources |-> <<>>,
     key |-> <<>>, searchCalls |-> 0, modelCalls |-> 0, seen |-> NoEntry, at |-> 0,
     doneAt |-> 0, origin |-> "none", viaCatch |-> FALSE, wrote |-> FALSE, lost |-> FALSE,
     usable |-> 0]

\* the calculateSourceScore of some result throws (title is not a string)
RankThrows(results) == \E i \in 1..Len(results) : ~results[i].titleIsString

\* researchTopic up to its first await: the cache check and, on a miss, the
\* dispatch of every search of the plan
StartResearch(c, req) ==
    /\ rcall[c].pc \in {"idle", "done"}
    /\ started < MaxCalls
    /\ started' = started + 1
    /\ LET cacheKey == generateCacheKey(req.topic, req.keywords)
           cached == getCachedResearch(researchCache, cacheKey, now)
           afterGet == CacheAfterGet(researchCache, cacheKey, now)
           call == [IdleCall EXCEPT !.topic = req.topic, !.keywords = req.keywords,
                                    !.key = cacheKey, !.at = now,
                                    !.seen = CacheGet(researchCache, cacheKey)]
       IN  IF cached # NoEntry
           THEN /\ rcall' = [rcall EXCEPT ![c] =
                                [call EXCEPT !.pc = "done", !.result = cached.summaries,
                                             !.origin = "cache", !.doneAt = now]]
                /\ researchCache' = afterGet
           ELSE /\ rcall' = [rcall EXCEPT ![c] =
                                [call EXCEPT !.pc = "searching", !.searchCalls = PlanLen]]
                /\ researchCache' = IF variant = "enhanced" THEN CacheClear(afterGet)
                                    ELSE afterGet
    /\ UNCHANGED <<variant, now, ticks, fanout, summ, gen, parse, route, otherVars>>

\* researchTopic caches everything (a mutation of ShouldCache)
ShouldCache_Always(v, researchData) == TRUE

\* whether researchTopic caches what its pipeline returned: the simplified
\* class only if (researchData.length > 0), the enhanced class always
ShouldCache(v, researchData) == v = "enhanced" \/ Len(researchData) > 0

\* the end of researchTopic: the result is returned, cached or not
Finished(call, result, origin, cache, t) ==
    [call EXCEPT !.pc = "done", !.result = result, !.origin = origin, !.wrote = cache,
                 !.doneAt = t]

\* the continuation after Promise.all of the searches
SearchDone(c, outcomes) ==
    /\ rcall[c].pc = "searching"
    /\ LET call == [rcall[c] EXCEPT
                       !.lost = \E q \in 1..Len(outcomes) : outcomes[q] = SearchError]
           allResults == parallelSearch(variant, outcomes)
           qualitySources == rankAndFilterSources(allResults, call.topic, now)
       IN  IF variant = "simple"
           THEN IF Len(allResults) = 0
                THEN /\ rcall' = [rcall EXCEPT ![c] =
                                     Finished(call, <<>>, "empty",
                                              ShouldCache(variant, <<>>), now)]
                     /\ researchCache' =
                            IF ShouldCache(variant, <<>>)
                            THEN cacheResearch(researchCache, call.key, <<>>, now)
                            ELSE researchCache
                ELSE /\ UNCHANGED researchCache
                     /\ rcall' = [rcall EXCEPT ![c] =
                                  [call EXCEPT !.pc = "summarizing",
                                               !.sources = Slice(allResults, 8),
                                               !.modelCalls = Len(Slice(allResults, 8))]]
           ELSE /\ UNCHANGED researchCache
                /\ IF RankThrows(allResults)
                   THEN rcall' = [rcall EXCEPT ![c] =
                                     [call EXCEPT !.pc = "fallback", !.viaCatch = TRUE,
                                                  !.modelCalls = 1]]
                   ELSE IF Len(qualitySources) = 0
                   THEN rcall' = [rcall EXCEPT ![c] =
                                     [call EXCEPT !.pc = "fallback", !.modelCalls = 1]]
                   ELSE rcall' = [rcall EXCEPT ![c] =
                                     [call EXCEPT !.pc = "summarizing",
                                                  !.sources = qualitySources]]
    /\ UNCHANGED <<variant, now, ticks, started, fanout, summ, gen, parse, route, otherVars>>

\* the continuation after Promise.all of the summarizations
SummarizeDone(c, responses) ==
    /\ rcall[c].pc = "summarizing"
    /\ LET call == rcall[c]
           summarized == summarizeResults(responses, call.sources, now)
           simple == Slice(summarized, 5)
           extracted == extractContentWithAttribution(responses, call.sources, now)
           enhanced == enhanceSummaries(extracted)
           asked == Cardinality({i \in 1..Len(call.sources) :
                                    responses[i].fetch = "ok" /\ call.sources[i].link.id # 0})
           researchData == IF variant = "simple" THEN simple ELSE enhanced
           got == IF variant = "simple" THEN Len(summarized) ELSE Len(extracted)
           end == [call EXCEPT !.lost = @ \/ got < Len(call.sources),
                               !.usable = got,
                               !.modelCalls = IF variant = "simple" THEN @ ELSE asked]
           origin == IF Len(researchData) > 0 THEN "pipeline" ELSE "empty"
       IN  IF ShouldCache(variant, researchData)
           THEN /\ researchCache' =
                       cacheResearch(researchCache, call.key, researchData, now)
                /\ rcall' = [rcall EXCEPT ![c] =
                                Finished(end, researchData, origin, TRUE, now)]
           ELSE /\ UNCHANGED researchCache
                /\ rcall' = [rcall EXCEPT ![c] =
                                Finished(end, researchData, origin, FALSE, now)]
    /\ UNCHANGED <<variant, now, ticks, started, fanout, summ, gen, parse, route, otherVars>>

\* the fallback of the enhanced class answers; reached from the pipeline its
\* result is cached, reached from the catch of researchTopic it is not
FallbackDone(c, resp) ==
    /\ rcall[c].pc = "fallback"
    /\ LET call == rcall[c]
           result == handleResearchFailure(resp, now)
           origin == IF result = createBasicFallbackResearch(now) THEN "template"
                     ELSE "fallback"
       IN  IF call.viaCatch
           THEN /\ UNCHANGED researchCache
                /\ rcall' = [rcall EXCEPT ![c] = Finished(call, result, origin, FALSE, now)]
           ELSE /\ researchCache' = cacheResearch(researchCache, call.key, result, now)
                /\ rcall' = [rcall EXCEPT ![c] = Finished(call, result, origin, TRUE, now)]
    /\ UNCHANGED <<variant, now, ticks, started, fanout, summ, gen, parse, route, otherVars>>

\* time passes
Tick(step) ==
    /\ ticks < MaxTicks
    /\ ticks' = ticks + 1
    /\ now' = now + step
    /\ UNCHANGED <<variant, researchCache, rcall, started, fanout, summ, gen, parse, route, otherVars>>

InitResearch ==
    /\ variant \in {"simple", "enhanced"}
    /\ now = 0
    /\ ticks = 0
    /\ researchCache = CacheClear(<<>>)
    /\ rcall = [c \in Callers |-> IdleCall]
    /\ started = 0
    /\ fanout = Off /\ summ = Off /\ gen = Off /\ parse = Off /\ route = Off
    /\ OthersOff

NextResearch ==
    \/ \E c \in Callers, req \in Requests : StartResearch(c, req)
    \/ \E c \in Callers, outcomes \in [1..PlanLen -> SearchOutcomes] : SearchDone(c, outcomes)
    \/ \E c \in Callers : \E responses \in [1..Len(rcall[c].sources) -> SummaryResponses] :
          SummarizeDone(c, responses)
    \/ \E c \in Callers, resp \in FallbackResponses : FallbackDone(c, resp)
    \/ \E step \in {1, CACHE_TTL - 1} : Tick(step)

SpecResearch == InitResearch /\ [][NextResearch]_vars

-----------------------------------------------------------------------------
(* The word-count retry of GenerationAgent.generateContentFromOutline and  *)
(* of ContentAgent.generateContent                                         *)

Agents == {"GenerationAgent", "ContentAgent"}

\* word_count_target of the runs explored
Targets == {10, 30}

\* what a chat completion ends with: the call rejects, or it answers with a
\* message content (a string, or none)
Rejects == [kind |-> "reject", content |-> NotAString]
Answers(content) == [kind |-> "message", content |-> content]

Draft(q, title, content) ==
    <<TOpen, Body(q, [title |-> title, content |-> content]), TClose>>

GenAnswers ==
    { Rejects, Answers(NotAString), Answers(RawText(<<>>)),
      Answers(RawText(<<TNull>>)), Answers(RawText(<<TNum>>)),
      Answers(RawText(<<TOpen, Body("bad", [title |-> Str(1)])>>)),
      Answers(RawText(<<TOpen, Body("ok", [title |-> Str(2)]), TClose>>)),
      Answers(RawText(<<TOpen, Body("ok", [content |-> Str(30)]), TClose>>)),
      Answers(RawText(Draft("ok", Str(3), Num(5)))),
      Answers(RawText(Draft("ok", Str(3), BlankStr))),
      Answers(RawText(Draft("esc", Str(4), Str(30)))),
      Answers(RawText(Draft("nl", Str(5), Str(32)))),
      Answers(RawText(<<TFence, TNl>> \o Draft("ok", Str(6), Str(29)) \o <<TNl, TTick>>)),
      Answers(RawText(<<TProse, TSp>> \o Draft("ok", Str(7), Str(31)) \o <<TProse>>)) }
    \cup { Answers(RawText(Draft("ok", Str(8), Str(w)))) : w \in {10, 11, 28, 32} }

IdleGen ==
    [pc |-> "idle", first |-> Rejects, title |-> Undefined, content |-> Undefined, agent |-> "none",
     target |-> 0, retry |-> Rejects, calls |-> 0]

\* Math.floor(word_count_target * 0.05)
Tolerance(target) == (target * 5) \div 100

\* the window test with the tolerance of the prompt text, 10% (a mutation of
\* InWindow)
InWindow_TenPercent(count, target) ==
    /\ count >= target - (target * 10) \div 100
    /\ count <= target + (target * 10) \div 100

\* the window test with the tolerance rounded up
InWindow_CeilTolerance(count, target) ==
    /\ count >= target - (target * 5 + 99) \div 100
    /\ count <= target + (target * 5 + 99) \div 100

\* !(actualWordCount < minWords || actualWordCount > maxWords)
InWindow(count, target) ==
    /\ count >= target - Tolerance(target)
    /\ count <= target + Tolerance(target)

\* the extractor and the word count of each agent; the retry of the
\* GenerationAgent is parsed under the context 'Content Retry'
ParseDraft(agent, raw, context) ==
    IF agent = "GenerationAgent" THEN safeParseJSON(raw, context).value
    ELSE ContentAgent_safeParseJSON(raw, "Content").value

WordsOf(agent, text) ==
    IF agent = "GenerationAgent" THEN countWords(text) ELSE ContentAgent_countWords(text)

\* if (!result), if (!parsed): null, undefined and the empty string are falsy
NoResult(answer) == ~answer.content.isString \/ answer.content.text = <<>>
NoValue(parsed) == parsed = ParsedNull

\* the retry is taken whatever it holds (a mutation of RetryAccepted)
RetryAccepted_Always(agent, retryParsed, target) == TRUE

\* retryWordCount >= minWords && retryWordCount <= maxWords
RetryAccepted(agent, retryParsed, target) ==
    InWindow(WordsOf(agent, Field(retryParsed, "content")).value, target)

\* the run is called: the first draft is requested
GenStart(agent, target) ==
    /\ gen.pc = "idle"
    /\ gen' = [IdleGen EXCEPT !.pc = "first", !.agent = agent, !.target = target,
                              !.calls = 1]
    /\ UNCHANGED <<researchVars, fanout, summ, parse, route, otherVars>>

\* the first completion ends: the run throws, returns the draft, or asks again
FirstAnswer(answer) ==
    /\ gen.pc = "first"
    /\ LET run == [gen EXCEPT !.first = answer]
           parsed == ParseDraft(gen.agent, answer.content, "Content")
           actualWordCount == WordsOf(gen.agent, Field(parsed, "content"))
       IN  IF answer.kind = "reject" \/ NoResult(answer) \/ NoValue(parsed)
              \/ actualWordCount.threw
           THEN gen' = [run EXCEPT !.pc = "thrown"]
           ELSE IF InWindow(actualWordCount.value, gen.target)
           THEN gen' = [run EXCEPT !.pc = "returned",
                                   !.title = Field(parsed, "title"),
                                   !.content = Field(parsed, "content")]
           ELSE gen' = [run EXCEPT !.pc = "retry", !.calls = 2]
    /\ UNCHANGED <<researchVars, fanout, summ, parse, route, otherVars>>

\* the retry completion ends: the run returns the retry or the original
\* draft, or throws
RetryAnswer(answer) ==
    /\ gen.pc = "retry"
    /\ LET run == [gen EXCEPT !.retry = answer]
           parsed == ParseDraft(gen.agent, gen.first.content, "Content")
           retryParsed == ParseDraft(gen.agent, answer.content, "Content Retry")
           retryWordCount == WordsOf(gen.agent, Field(retryParsed, "content"))
           original == [run EXCEPT !.pc = "returned",
                                   !.title = Field(parsed, "title"),
                                   !.content = Field(parsed, "content")]
       IN  IF answer.kind = "reject" THEN gen' = [run EXCEPT !.pc = "thrown"]
           ELSE IF NoResult(answer) \/ NoValue(retryParsed) THEN gen' = original
           ELSE IF retryWordCount.threw THEN gen' = [run EXCEPT !.pc = "thrown"]
           ELSE IF RetryAccepted(gen.agent, retryParsed, gen.target)
           THEN gen' = [run EXCEPT !.pc = "returned",
                                   !.title = Field(retryParsed, "title"),
                                   !.content = Field(retryParsed, "content")]
           ELSE gen' = original
    /\ UNCHANGED <<researchVars, fanout, summ, parse, route, otherVars>>

ResearchOff ==
    /\ variant = "simple"
    /\ now = 0
    /\ ticks = 0
    /\ researchCache = CacheClear(<<>>)
    /\ rcall = [c \in Callers |-> IdleCall]
    /\ started = 0

InitGen ==
    /\ gen = IdleGen
    /\ ResearchOff
    /\ fanout = Off /\ summ = Off /\ parse = Off /\ route = Off
    /\ OthersOff

NextGen ==
    \/ \E agent \in Agents, target \in Targets : GenStart(agent, target)
    \/ \E answer \in GenAnswers : FirstAnswer(answer)
    \/ \E answer \in GenAnswers : RetryAnswer(answer)

SpecGen == InitGen /\ [][NextGen]_vars

-----------------------------------------------------------------------------
(* safeParseJSON applied to raw model output *)

Contexts == {"Content", "SEO", "Content Retry"}

\* the member lists explored: complete, complete with a score, without
\* content, with truthy values of the wrong type, with an empty title
ParseBodies ==
    { Body("ok", [title |-> Str(1), content |-> Str(3)]),
      Body("ok", [title |-> Str(1), content |-> Str(3), seo_score |-> Num(7)]),
      Body("ok", [title |-> Str(1)]),
      Body("ok", [title |-> Num(5), content |-> Arr(2)]),
      Body("ok", [title |-> Str(0), content |-> Str(3)]),
      Body("esc", [title |-> Str(1), content |-> Str(3)]),
      Body("nl", [title |-> Str(1), content |-> Str(3)]),
      Body("bad", [title |-> Str(1), content |-> Str(3)]) }

\* what stands where the JSON is expected
ParseCores ==
    { <<TOpen, b, TClose>> : b \in ParseBodies }
    \cup { <<>>, <<TNull>>, <<TNum>>, <<TOpen, TClose>>,
           <<TOpen, Body("ok", [title |-> Str(1), content |-> Str(3)])>>,
           <<TOpen, TCtl, Body("ok", [title |-> Str(1), content |-> Str(3)]), TNl, TClose>> }

\* what the model writes before and after it
Before == {TFence, TNl, TProse, TOpen}
After == {TTick, TNl, TProse, TClose}

SeqUpTo(S, n) == UNION {[1..k -> S] : k \in 0..n}

RawInputs ==
    {NotAString}
    \cup { RawText(pre \o core \o post) :
             pre \in SeqUpTo(Before, MaxWrap), core \in ParseCores,
             post \in SeqUpTo(After, MaxWrap) }

ReadyParse(raw) ==
    [pc |-> "ready", context |-> "none", raw |-> raw, result |-> Returns(ParsedNull),
     agent |-> "none"]

\* GenerationAgent.safeParseJSON is called on the input
ExtractGeneration(context) ==
    /\ parse.pc = "ready"
    /\ parse' = [parse EXCEPT !.pc = "done", !.agent = "GenerationAgent",
                              !.context = context,
                              !.result = safeParseJSON(parse.raw, context)]
    /\ UNCHANGED <<researchVars, fanout, summ, gen, route, otherVars>>

\* ContentAgent.safeParseJSON is called on the input
ExtractContent(context) ==
    /\ parse.pc = "ready"
    /\ parse' = [parse EXCEPT !.pc = "done", !.agent = "ContentAgent",
                              !.context = context,
                              !.result = ContentAgent_safeParseJSON(parse.raw, context)]
    /\ UNCHANGED <<researchVars, fanout, summ, gen, route, otherVars>>

InitParse ==
    /\ parse \in {ReadyParse(raw) : raw \in RawInputs}
    /\ ResearchOff
    /\ fanout = Off /\ summ = Off /\ gen = Off /\ route = Off
    /\ OthersOff

NextParse ==
    \/ \E context \in Contexts : ExtractGeneration(context)
    \/ \E context \in {"Content"} : ExtractContent(context)

SpecParse == InitParse /\ [][NextParse]_vars

-----------------------------------------------------------------------------
(* summarizeWithAttribution applied to one model answer *)

\* a complete object of the schema the summarization prompt asks for
FullSummary ==
    [title |-> Str(5), url |-> Str(1), key_points |-> Arr(3), expert_quotes |-> Arr(1),
     data_points |-> Arr(1), relevance_score |-> Num(90), source_authority |-> Str(2)]

\* the same with two fields of another type
MistypedSummary ==
    [FullSummary EXCEPT !.relevance_score = Str(3), !.key_points = Str(4)]

\* the same with the url of a page that is no search hit and a score of 250
ForeignSummary ==
    [FullSummary EXCEPT !.url = Str(7), !.relevance_score = Num(250)]

Restrict(f, S) == [n \in S |-> f[n]]

\* the answers explored: the call fails, no content, text that is no JSON,
\* the literals, and objects with every subset of the fields, bare or fenced
SummaryAnswers ==
    { ModelThrow("ok"), ModelText("ok", <<>>), ModelText("ok", <<TProse>>),
      ModelText("ok", <<TNull>>), ModelText("ok", <<TNum>>),
      ModelText("ok", <<TOpen, TClose>>),
      ModelText("ok", <<TOpen, Body("bad", FullSummary)>>),
      ModelText("ok", <<TOpen, Body("ok", MistypedSummary), TClose>>),
      ModelText("ok", <<TOpen, Body("ok", ForeignSummary), TClose>>),
      ModelText("ok", <<TFence, TNl, TOpen, Body("ok", FullSummary), TClose, TNl, TTick>>) }
    \cup { ModelText("ok", <<TOpen, Body("ok", Restrict(FullSummary, S)), TClose>>) :
             S \in (SUBSET SummaryFields) \ {{}} }

ReadySumm(answer) ==
    [pc |-> "ready", result |-> Null, answer |-> answer, class |-> "none"]

\* the summarization of one search hit ends
Summarize(v, source) ==
    /\ summ.pc = "ready"
    /\ summ' = [summ EXCEPT !.pc = "done", !.class = v,
                            !.result = summarizeWithAttribution(v, summ.answer, source, now)]
    /\ UNCHANGED <<researchVars, fanout, gen, parse, route, otherVars>>

InitSummarize ==
    /\ summ \in {ReadySumm(answer) : answer \in SummaryAnswers}
    /\ ResearchOff
    /\ fanout = Off /\ gen = Off /\ parse = Off /\ route = Off
    /\ OthersOff

NextSummarize ==
    \/ \E v \in {"simple", "enhanced"}, source \in {hTop} : Summarize(v, source)

SpecSummarize == InitSummarize /\ [][NextSummarize]_vars

-----------------------------------------------------------------------------
(* parallelSearch as concurrent provider calls *)

\* the hit the provider ranks first for query q
QueryHit(q) == Hit(Link(10 + q, {}), NoDate, <<"b">>, 20)

\* what the provider may answer to query q: the request fails, a body with
\* data.error (whatever else it carries), no organic_results, one hit, or
\* several entries of which one is null and one has no link
QueryOutcomes(q) ==
    { SearchError,
      [error |-> TRUE, organic |-> <<QueryHit(q)>>],
      Organic(<<>>),
      Organic(<<QueryHit(q)>>),
      Organic(<<QueryHit(q), NullHit, hNoLink>>) }

Pending == [pending |-> TRUE]

\* arrived: the queries in the order in which their calls settled
IdleFanout ==
    [pc |-> "idle", results |-> <<>>, class |-> "none", answers |-> <<>>, arrived |-> <<>>]

\* queries.map(query => this.searchSerpAPI(query)): every call is issued
\* before any is awaited
FanOut(v, n) ==
    /\ fanout.pc = "idle"
    /\ fanout' = [fanout EXCEPT !.pc = "waiting", !.class = v,
                                !.answers = [q \in 1..n |-> Pending]]
    /\ UNCHANGED <<researchVars, summ, gen, parse, route, otherVars>>

\* one provider call settles, in any order
ProviderAnswers(q, outcome) ==
    /\ fanout.pc = "waiting"
    /\ q \in 1..Len(fanout.answers)
    /\ fanout.answers[q] = Pending
    /\ fanout' = [fanout EXCEPT !.answers[q] = outcome,
                                !.arrived = Append(fanout.arrived, q)]
    /\ UNCHANGED <<researchVars, summ, gen, parse, route, otherVars>>

\* await Promise.all(searchPromises), then flat and filter
AwaitAll ==
    /\ fanout.pc = "waiting"
    /\ \A q \in 1..Len(fanout.answers) : fanout.answers[q] # Pending
    /\ fanout' = [fanout EXCEPT !.pc = "done",
                                !.results = parallelSearch(fanout.class, fanout.answers)]
    /\ UNCHANGED <<researchVars, summ, gen, parse, route, otherVars>>

InitSearch ==
    /\ fanout = IdleFanout
    /\ ResearchOff
    /\ summ = Off /\ gen = Off /\ parse = Off /\ route = Off
    /\ OthersOff

NextSearch ==
    \/ \E v \in {"simple", "enhanced"}, n \in 1..MaxQueries : FanOut(v, n)
    \/ \E q \in 1..MaxQueries : \E outcome \in QueryOutcomes(q) : ProviderAnswers(q, outcome)
    \/ AwaitAll

SpecSearch == InitSearch /\ [][NextSearch]_vars

-----------------------------------------------------------------------------
(* POST /api/content/generate *)

\* a topic string, known by the keyword lists of isObviouslyUnsafe it has a
\* word of
TopicText(has) == [x |-> 1, ty |-> "str", has |-> has]

isObviouslyUnsafe(topic) ==
    IF "unsafeKeywords" \in topic.has THEN TRUE
    ELSE IF "weaponKeywords" \in topic.has THEN "professionalContexts" \notin topic.has
    ELSE FALSE

\* a destructuring default applies to an undefined property only
Default(v, d) == IF v.ty = "undefined" THEN d ELSE v

\* the request bodies explored
Bodies ==
    { [topic |-> t, content_purpose |-> p, workspace_id |-> w, word_count |-> n] :
        t \in {Undefined, Str(0), TopicText({}), TopicText({"unsafeKeywords"}),
               TopicText({"weaponKeywords"}),
               TopicText({"weaponKeywords", "professionalContexts"})},
        p \in {Undefined, Str(0), Str(7)},
        w \in {Undefined, Str(8)},
        n \in {Undefined, Num(10)} }

NoBody ==
    [topic |-> Undefined, content_purpose |-> Undefined, workspace_id |-> Undefined,
     word_count |-> Undefined]

\* what researchTopic may resolve to: nothing, one or two summaries, or the
\* fallback template of the enhanced class
ResearchResults ==
    { <<>>,
      <<summarizeWithAttribution("simple", ModelText("ok", GoodText), hTop, 0)>>,
      <<summarizeWithAttribution("enhanced", ModelText("ok", GoodText), hTop, 0),
        summarizeWithAttribution("enhanced", ModelText("ok", PartialText), hWeak, 0)>>,
      createBasicFallbackResearch(0) }

\* the map of route.ts 151-155: keywords emptied, summary joined from the key
\* points and the expert quotes
convertedSummaries(researchSummaries) ==
    [i \in 1..Len(researchSummaries) |->
        [keywords |-> Arr(0),
         summary |-> <<researchSummaries[i].key_points, researchSummaries[i].expert_quotes>>,
         source |-> researchSummaries[i]]]

\* GenerationAgent.formatResearchContext: a fixed sentence when there are no
\* summaries, one section per summary otherwise
formatResearchContext(researchSummaries) ==
    IF Len(researchSummaries) = 0 THEN <<"No specific research insights available">>
    ELSE [i \in 1..Len(researchSummaries) |-> "SOURCE"]

IdleRoute ==
    [pc |-> "idle", error |-> "none", researchSummaries |-> <<>>, body |-> NoBody,
     status |-> 0, finalTopic |-> Undefined, researched |-> FALSE,
     generation |-> "none", researchContext |-> <<>>, word_count_target |-> 0]

Respond(r, status, error) ==
    [r EXCEPT !.pc = "responded", !.status = status, !.error = error]

\* request.json() rejects: the outer catch answers 500
PostUnreadable ==
    /\ route.pc = "idle"
    /\ route' = Respond(route, 500, "Content generation failed")
    /\ UNCHANGED <<researchVars, fanout, summ, gen, parse, otherVars>>

\* the handler up to its first await on an agent: the required fields and
\* the quick safety check
Post(body) ==
    /\ route.pc = "idle"
    /\ LET content_purpose == Default(body.content_purpose, Str(7))
           r == [route EXCEPT !.body = body]
       IN  route' =
             IF ~Truthy(body.topic) \/ ~Truthy(content_purpose) \/ ~Truthy(body.workspace_id)
             THEN Respond(r, 400, "Missing required fields")
             ELSE IF isObviouslyUnsafe(body.topic)
             THEN Respond(r, 400, "inappropriate content")
             ELSE [r EXCEPT !.pc = "classifyIntent"]
    /\ UNCHANGED <<researchVars, fanout, summ, gen, parse, otherVars>>

IntentTypes == {"BLOG_GENERATION", "BLOG_IDEATION", "OUT_OF_SCOPE"}

IntentClassified(intent) ==
    /\ route.pc = "classifyIntent"
    /\ route' = IF intent = "OUT_OF_SCOPE" THEN Respond(route, 400, "out of scope")
                ELSE [route EXCEPT !.pc = "sanitizeTopic"]
    /\ UNCHANGED <<researchVars, fanout, summ, gen, parse, otherVars>>

TopicSanitized(safety) ==
    /\ route.pc = "sanitizeTopic"
    /\ route' = IF safety = "UNSAFE" THEN Respond(route, 400, "unsafe topic")
                ELSE [route EXCEPT !.pc = "identifyTopic"]
    /\ UNCHANGED <<researchVars, fanout, summ, gen, parse, otherVars>>

TopicIdentified(isVague, suggestions, extractedTopic) ==
    /\ route.pc = "identifyTopic"
    /\ route' = IF isVague /\ suggestions > 0
                THEN Respond(route, 400, "needs clarification")
                ELSE [route EXCEPT !.pc = "researchTopic",
                                   !.finalTopic = OrElse(extractedTopic, route.body.topic)]
    /\ UNCHANGED <<researchVars, fanout, summ, gen, parse, otherVars>>

\* researchTopic resolves; an empty list is answered with 400
Researched(researchSummaries) ==
    /\ route.pc = "researchTopic"
    /\ LET r == [route EXCEPT !.researched = TRUE, !.researchSummaries = researchSummaries]
       IN  route' =
             IF Len(researchSummaries) = 0
             THEN Respond(r, 400, "No relevant research found for this topic")
             ELSE [r EXCEPT !.pc = "generateContent",
                            !.word_count_target = OrElse(route.body.word_count, Num(500)).x]
    /\ UNCHANGED <<researchVars, fanout, summ, gen, parse, otherVars>>

\* generateContent settles; the prompt it worked from holds the research
\* context of the converted summaries
Generated(outcome) ==
    /\ route.pc = "generateContent"
    /\ LET r == [route EXCEPT !.generation = outcome,
                              !.researchContext =
                                 formatResearchContext(convertedSummaries(route.researchSummaries))]
       IN  route' = IF outcome = "throws" THEN Respond(r, 500, "Content generation failed")
                    ELSE [r EXCEPT !.pc = "finish"]
    /\ UNCHANGED <<researchVars, fanout, summ, gen, parse, otherVars>>

\* humanizing, optimization, export and saving each fall back on failure;
\* whatever still throws reaches the outer catch
Completed(outcome) ==
    /\ route.pc = "finish"
    /\ route' = IF outcome = "throws" THEN Respond(route, 500, "Content generation failed")
                ELSE Respond(route, 200, "none")
    /\ UNCHANGED <<researchVars, fanout, summ, gen, parse, otherVars>>

InitRoute ==
    /\ route = IdleRoute
    /\ ResearchOff
    /\ fanout = Off /\ summ = Off /\ gen = Off /\ parse = Off
    /\ OthersOff

NextRoute ==
    \/ PostUnreadable
    \/ \E body \in Bodies : Post(body)
    \/ \E intent \in IntentTypes : IntentClassified(intent)
    \/ \E safety \in {"SAFE", "UNSAFE"} : TopicSanitized(safety)
    \/ \E isVague \in BOOLEAN, suggestions \in 0..1,
          extractedTopic \in {Undefined, Str(0), TopicText({})} :
            TopicIdentified(isVague, suggestions, extractedTopic)
    \/ \E researchSummaries \in ResearchResults : Researched(researchSummaries)
    \/ \E outcome \in {"draft", "throws"} : Generated(outcome)
    \/ \E outcome \in {"saved", "throws"} : Completed(outcome)

SpecRoute == InitRoute /\ [][NextRoute]_vars

-----------------------------------------------------------------------------
(* generateCacheKey on an input and on a variation of it *)

\* the other case of a letter
FlipCase(ch) ==
    CASE ch = "a" -> "A"
      [] ch = "b" -> "B"
      [] ch = "s" -> "S"
      [] OTHER -> Lower(ch)

\* the inputs the variations start from
KeyTopics == { <<"S", "e", "o">>, <<"a", " ", "B">> }
KeyKeywords == { <<>>, << <<"b">> >>, << <<"B", "a">>, <<"a">> >>, << <<"s">>, <<"b">>, <<"a", "b">> >> }

ReadyKeying(topic, keywords) ==
    [pc |-> "ready", topic |-> topic, keywords |-> keywords, key |-> <<>>,
     variedTopic |-> topic, variedKeywords |-> keywords, edits |-> 0, variedKey |-> <<>>]

\* the case of one letter of the topic changes
RecaseTopic(i) ==
    /\ keying.pc = "ready" /\ keying.edits < MaxEdits
    /\ i \in 1..Len(keying.variedTopic)
    /\ FlipCase(keying.variedTopic[i]) # keying.variedTopic[i]
    /\ keying' = [keying EXCEPT !.variedTopic[i] = FlipCase(@), !.edits = @ + 1]
    /\ UNCHANGED <<researchVars, fanout, summ, gen, parse, route, plan, ranking, seo, process, service>>

\* the case of one letter of one keyword changes
RecaseKeyword(k, i) ==
    /\ keying.pc = "ready" /\ keying.edits < MaxEdits
    /\ k \in 1..Len(keying.variedKeywords)
    /\ i \in 1..Len(keying.variedKeywords[k])
    /\ FlipCase(keying.variedKeywords[k][i]) # keying.variedKeywords[k][i]
    /\ keying' = [keying EXCEPT !.variedKeywords[k][i] = FlipCase(@), !.edits = @ + 1]
    /\ UNCHANGED <<researchVars, fanout, summ, gen, parse, route, plan, ranking, seo, process, service>>

\* a space is put before (leading) or after the topic
PadTopic(leading) ==
    /\ keying.pc = "ready" /\ keying.edits < MaxEdits
    /\ keying' = [keying EXCEPT !.variedTopic = IF leading THEN <<" ">> \o @ ELSE @ \o <<" ">>,
                                !.edits = @ + 1]
    /\ UNCHANGED <<researchVars, fanout, summ, gen, parse, route, plan, ranking, seo, process, service>>

\* a space is put before or after one keyword
PadKeyword(k, leading) ==
    /\ keying.pc = "ready" /\ keying.edits < MaxEdits
    /\ k \in 1..Len(keying.variedKeywords)
    /\ keying' = [keying EXCEPT
                    !.variedKeywords[k] = IF leading THEN <<" ">> \o @ ELSE @ \o <<" ">>,
                    !.edits = @ + 1]
    /\ UNCHANGED <<researchVars, fanout, summ, gen, parse, route, plan, ranking, seo, process, service>>

\* two keywords change places
SwapKeywords(j, k) ==
    /\ keying.pc = "ready" /\ keying.edits < MaxEdits
    /\ j \in 1..Len(keying.variedKeywords) /\ k \in 1..Len(keying.variedKeywords)
    /\ j < k
    /\ keying' = [keying EXCEPT !.variedKeywords[j] = keying.variedKeywords[k],
                                !.variedKeywords[k] = keying.variedKeywords[j],
                                !.edits = @ + 1]
    /\ UNCHANGED <<researchVars, fanout, summ, gen, parse, route, plan, ranking, seo, process, service>>

\* generateCacheKey is called on the input and on its variation
ComputeKeys ==
    /\ keying.pc = "ready"
    /\ keying' = [keying EXCEPT
                    !.pc = "done",
                    !.key = generateCacheKey(keying.topic, keying.keywords),
                    !.variedKey = generateCacheKey(keying.variedTopic, keying.variedKeywords)]
    /\ UNCHANGED <<researchVars, fanout, summ, gen, parse, route, plan, ranking, seo, process, service>>

InitKey ==
    /\ keying \in {ReadyKeying(topic, keywords) : topic \in KeyTopics, keywords \in KeyKeywords}
    /\ ResearchOff
    /\ fanout = Off /\ summ = Off /\ gen = Off /\ parse = Off /\ route = Off
    /\ plan = Off /\ ranking = Off /\ seo = Off /\ process = Off /\ service = Off

NextKey ==
    \/ \E i \in 1..(3 + MaxEdits) : RecaseTopic(i)
    \/ \E k \in 1..3, i \in 1..(2 + MaxEdits) : RecaseKeyword(k, i)
    \/ \E leading \in BOOLEAN : PadTopic(leading)
    \/ \E k \in 1..3, leading \in BOOLEAN : PadKeyword(k, leading)
    \/ \E j \in 1..3, k \in 1..3 : SwapKeywords(j, k)
    \/ ComputeKeys

SpecKey == InitKey /\ [][NextKey]_vars

-----------------------------------------------------------------------------
(* The server process: generate requests, each with the ResearchAgent it    *)
(* constructs                                                               *)

ProcessTopics == { <<"S", "e", "o">>, <<"s", "e", "o", " ">>, <<"a", "b">> }

\* a request that has not reached the handler; after is the set of requests
\* whose research had returned and been cached when this one called researchTopic
NoRequest ==
    [pc |-> "none", topic |-> <<>>, result |-> <<>>, key |-> <<>>, at |-> 0, doneAt |-> 0,
     origin |-> "none", wrote |-> FALSE, agent |-> 0, after |-> {}]

\* agents[a] is the researchCache field of the a-th ResearchAgent constructed:
\* private researchCache: Map<string, CachedResearch> = new Map()
IdleProcess ==
    [pc |-> "serving", requests |-> [r \in 1..MaxRequests |-> NoRequest], agents |-> <<>>,
     clock |-> 0, ticked |-> 0]

\* a validated request reaches lines 119-129 of the route: it constructs its
\* ResearchAgent and calls researchTopic(finalTopic, []), which reads the
\* cache of that agent
RequestResearch(r, v, topic) ==
    /\ process.requests[r].pc = "none"
    /\ \A q \in 1..(r - 1) : process.requests[q].pc # "none"
    /\ LET a == Len(process.agents) + 1
           fresh == CacheClear(<<>>)
           cacheKey == generateCacheKey(topic, <<>>)
           cached == getCachedResearch(fresh, cacheKey, process.clock)
           afterGet == CacheAfterGet(fresh, cacheKey, process.clock)
           request == [NoRequest EXCEPT !.topic = topic, !.key = cacheKey, !.agent = a,
                                        !.at = process.clock,
                                        !.after = {q \in 1..MaxRequests :
                                                     /\ process.requests[q].pc = "researched"
                                                     /\ process.requests[q].wrote}]
       IN  process' =
             IF cached # NoEntry
             THEN [process EXCEPT
                     !.agents = Append(@, afterGet),
                     !.requests[r] = [request EXCEPT !.pc = "researched", !.origin = "cache",
                                                     !.result = cached.summaries,
                                                     !.doneAt = process.clock]]
             ELSE [process EXCEPT
                     !.agents = Append(@, IF v = "enhanced" THEN CacheClear(afterGet)
                                          ELSE afterGet),
                     !.requests[r] = [request EXCEPT !.pc = "searching"]]
    /\ UNCHANGED <<researchVars, fanout, summ, gen, parse, route, keying, plan, ranking, seo, service>>

\* the pipeline of a request returns: researchTopic caches the result in the
\* agent of the request and returns it
ResearchReturns(r, v, researchData) ==
    /\ process.requests[r].pc = "searching"
    /\ LET request == process.requests[r]
           write == ShouldCache(v, researchData)
       IN  process' =
             [process EXCEPT
                !.agents[request.agent] =
                    IF write THEN cacheResearch(@, request.key, researchData, process.clock)
                    ELSE @,
                !.requests[r] = [request EXCEPT !.pc = "researched", !.origin = "pipeline",
                                                !.result = researchData, !.wrote = write,
                                                !.doneAt = process.clock]]
    /\ UNCHANGED <<researchVars, fanout, summ, gen, parse, route, keying, plan, ranking, seo, service>>

\* time passes in the process
ProcessTick(step) ==
    /\ process.ticked < MaxTicks
    /\ process' = [process EXCEPT !.clock = @ + step, !.ticked = @ + 1]
    /\ UNCHANGED <<researchVars, fanout, summ, gen, parse, route, keying, plan, ranking, seo, service>>

InitProcess ==
    /\ process = IdleProcess
    /\ variant \in {"simple", "enhanced"}
    /\ now = 0 /\ ticks = 0 /\ researchCache = CacheClear(<<>>)
    /\ rcall = [c \in Callers |-> IdleCall] /\ started = 0
    /\ fanout = Off /\ summ = Off /\ gen = Off /\ parse = Off /\ route = Off
    /\ keying = Off /\ plan = Off /\ ranking = Off /\ seo = Off /\ service = Off

NextProcess ==
    \/ \E r \in 1..MaxRequests, topic \in ProcessTopics : RequestResearch(r, variant, topic)
    \/ \E r \in 1..MaxRequests, researchData \in ResearchResults :
          ResearchReturns(r, variant, researchData)
    \/ \E step \in {1, CACHE_TTL - 1} : ProcessTick(step)

SpecProcess == InitProcess /\ [][NextProcess]_vars

-----------------------------------------------------------------------------
(* The search plan: generateStrategicQueries *)

\* the template `${subject} suffix`
Query(subject, suffix) == subject \o <<" ">> \o suffix

\* the base queries of the simplified class, by their suffixes
SimpleSuffixes ==
    << <<"t", "r", "e", "n", "d", "s", " ", "2", "0", "2", "4">>,
       <<"b", "e", "s", "t", " ", "p", "r", "a", "c", "t", "i", "c", "e", "s">>,
       <<"i", "n", "d", "u", "s", "t", "r", "y", " ", "i", "n", "s", "i", "g", "h", "t", "s">>,
       <<"g", "u", "i", "d", "e">>,
       <<"t", "i", "p", "s">>,
       <<"s", "t", "r", "a", "t", "e", "g", "i", "e", "s">>,
       <<"e", "x", "a", "m", "p", "l", "e", "s">> >>

\* generateStrategicQueries of the simplified class
generateStrategicQueries_Simple(topic, keywords) ==
    LET baseQueries == [i \in 1..Len(SimpleSuffixes) |-> Query(topic, SimpleSuffixes[i])]
        keywordQueries == [i \in 1..Len(keywords) |-> Query(topic, keywords[i])]
    IN  Slice(baseQueries \o keywordQueries, 10)

\* the tests of extractCoreConcepts in their order: the substrings looked for
\* in the lower-cased topic and the concept pushed when one of them is found
ConceptTable ==
    <<
       <<{<<"b", "2", "b">>},
         <<"B", "2", "B">>>>,
       <<{<<"s", "a", "a", "s">>},
         <<"S", "a", "a", "S">>>>,
       <<{<<"a", "i">>, <<"a", "r", "t", "i", "f", "i", "c", "i", "a", "l", " ", "i", "n", "t", "e", "l", "l", "i", "g", "e", "n", "c", "e">>},
         <<"A", "I">>>>,
       <<{<<"c", "u", "s", "t", "o", "m", "e", "r", " ", "s", "u", "p", "p", "o", "r", "t">>, <<"c", "u", "s", "t", "o", "m", "e", "r", " ", "s", "e", "r", "v", "i", "c", "e">>},
         <<"c", "u", "s", "t", "o", "m", "e", "r", " ", "s", "u", "p", "p", "o", "r", "t">>>>,
       <<{<<"a", "d", "v", "a", "n", "t", "a", "g", "e", "s">>, <<"b", "e", "n", "e", "f", "i", "t", "s">>},
         <<"a", "d", "v", "a", "n", "t", "a", "g", "e", "s">>>>,
       <<{<<"t", "o", "p", " ", "p", "l", "a", "y", "e", "r", "s">>, <<"c", "o", "m", "p", "a", "n", "i", "e", "s">>, <<"v", "e", "n", "d", "o", "r", "s">>},
         <<"t", "o", "p", " ", "c", "o", "m", "p", "a", "n", "i", "e", "s">>>>,
       <<{<<"c", "o", "p">>, <<"p", "o", "l", "i", "c", "e">>, <<"o", "f", "f", "i", "c", "e", "r">>},
         <<"l", "a", "w", " ", "e", "n", "f", "o", "r", "c", "e", "m", "e", "n", "t">>>>,
       <<{<<"s", "e", "c", "u", "r", "i", "t", "y">>, <<"p", "r", "i", "v", "a", "t", "e", " ", "s", "e", "c", "u", "r", "i", "t", "y">>},
         <<"s", "e", "c", "u", "r", "i", "t", "y">>>>,
       <<{<<"o", "f", "f", " ", "d", "u", "t", "y">>, <<"s", "i", "d", "e", " ", "j", "o", "b">>},
         <<"o", "f", "f", " ", "d", "u", "t", "y", " ", "w", "o", "r", "k">>>>,
       <<{<<"c", "o", "n", "t", "r", "a", "c", "t", "o", "r">>, <<"c", "o", "n", "t", "r", "a", "c", "t", "i", "n", "g">>},
         <<"c", "o", "n", "t", "r", "a", "c", "t", "i", "n", "g">>>>,
       <<{<<"s", "c", "h", "e", "d", "u", "l", "i", "n", "g">>, <<"f", "i", "n", "d", "i", "n", "g">>},
         <<"j", "o", "b", " ", "s", "e", "a", "r", "c", "h">>>>
    >>

LongerThan3(w) == Len(w) > 3

\* extractCoreConcepts(topic)
extractCoreConcepts(topic) ==
    LET lower == toLowerCase(topic)
        found == [i \in 1..Len(ConceptTable) |->
                    IF \E sub \in ConceptTable[i][1] : includes(lower, sub)
                    THEN <<ConceptTable[i][2]>> ELSE <<>>]
        concepts == Flat(found)
    IN  IF Len(concepts) = 0 THEN Slice(SelectSeq(split(lower), LongerThan3), 3)
        ELSE concepts

lawEnforcementKeywords ==
    { <<"c", "o", "p">>, <<"p", "o", "l", "i", "c", "e">>,
      <<"o", "f", "f", "i", "c", "e", "r">>,
      <<"l", "a", "w", " ", "e", "n", "f", "o", "r", "c", "e", "m", "e", "n", "t">>,
      <<"s", "e", "c", "u", "r", "i", "t", "y">>,
      <<"p", "r", "i", "v", "a", "t", "e", " ", "s", "e", "c", "u", "r", "i", "t", "y">>,
      <<"o", "f", "f", " ", "d", "u", "t", "y">>,
      <<"c", "o", "n", "t", "r", "a", "c", "t", "o", "r">> }

isLawEnforcementTopic(topic) ==
    \E kw \in lawEnforcementKeywords : includes(toLowerCase(topic), kw)

\* the four queries pushed for each concept
ConceptSuffixes(topic) ==
    IF isB2BSaaSTopic(topic)
    THEN << <<"c", "u", "s", "t", "o", "m", "e", "r", " ", "s", "u", "p", "p", "o", "r", "t">>,
            <<"B", "2", "B", " ", "S", "a", "a", "S">>,
            <<"a", "d", "v", "a", "n", "t", "a", "g", "e", "s", " ", "b", "e", "n", "e", "f", "i", "t", "s">>,
            <<"t", "o", "p", " ", "c", "o", "m", "p", "a", "n", "i", "e", "s", " ", "v", "e", "n", "d", "o", "r", "s">> >>
    ELSE << <<"g", "u", "i", "d", "e">>,
            <<"t", "i", "p", "s">>,
            <<"s", "t", "r", "a", "t", "e", "g", "i", "e", "s">>,
            <<"o", "p", "p", "o", "r", "t", "u", "n", "i", "t", "i", "e", "s">> >>

IntentSuffixes ==
    << <<"h", "o", "w", " ", "t", "o">>, <<"g", "u", "i", "d", "e">>, <<"t", "i", "p", "s">>,
       <<"s", "t", "r", "a", "t", "e", "g", "i", "e", "s">>, <<"e", "x", "a", "m", "p", "l", "e", "s">> >>

\* the fixed queries added for a B2B SaaS topic, else for a law enforcement one
IndustryQueries(topic) ==
    IF isB2BSaaSTopic(topic)
    THEN << <<"B", "2", "B", " ", "S", "a", "a", "S", " ", "c", "u", "s", "t", "o", "m", "e", "r", " ", "s", "u", "p", "p", "o", "r", "t", " ", "s", "o", "l", "u", "t", "i", "o", "n", "s">>,
            <<"A", "I", " ", "c", "u", "s", "t", "o", "m", "e", "r", " ", "s", "u", "p", "p", "o", "r", "t", " ", "B", "2", "B">>,
            <<"c", "u", "s", "t", "o", "m", "e", "r", " ", "s", "u", "p", "p", "o", "r", "t", " ", "a", "u", "t", "o", "m", "a", "t", "i", "o", "n", " ", "S", "a", "a", "S">>,
            <<"t", "o", "p", " ", "c", "u", "s", "t", "o", "m", "e", "r", " ", "s", "u", "p", "p", "o", "r", "t", " ", "p", "l", "a", "t", "f", "o", "r", "m", "s", " ", "2", "0", "2", "4">> >>
    ELSE IF isLawEnforcementTopic(topic)
    THEN << <<"l", "a", "w", " ", "e", "n", "f", "o", "r", "c", "e", "m", "e", "n", "t", " ", "o", "f", "f", " ", "d", "u", "t", "y", " ", "o", "p", "p", "o", "r", "t", "u", "n", "i", "t", "i", "e", "s">>,
            <<"p", "r", "i", "v", "a", "t", "e", " ", "s", "e", "c", "u", "r", "i", "t", "y", " ", "c", "o", "n", "t", "r", "a", "c", "t", "o", "r", " ", "j", "o", "b", "s">>,
            <<"p", "o", "l", "i", "c", "e", " ", "o", "f", "f", "i", "c", "e", "r", " ", "s", "i", "d", "e", " ", "j", "o", "b", "s">>,
            <<"s", "e", "c", "u", "r", "i", "t", "y", " ", "i", "n", "d", "u", "s", "t", "r", "y", " ", "c", "a", "r", "e", "e", "r", " ", "g", "u", "i", "d", "e">>,
            <<"o", "f", "f", " ", "d", "u", "t", "y", " ", "l", "a", "w", " ", "e", "n", "f", "o", "r", "c", "e", "m", "e", "n", "t", " ", "w", "o", "r", "k">> >>
    ELSE <<>>

\* generateStrategicQueries of the enhanced class
generateStrategicQueries_Enhanced(topic, keywords) ==
    LET coreConcepts == extractCoreConcepts(topic)
        suffixes == ConceptSuffixes(topic)
        topicQueries == [i \in 1..3 |-> Query(topic, SimpleSuffixes[i])]
        conceptQueries ==
            Flat([c \in 1..Len(coreConcepts) |->
                    [i \in 1..Len(suffixes) |-> Query(coreConcepts[c], suffixes[i])]])
        baseQueries == topicQueries \o conceptQueries
        keywordQueries == [i \in 1..Len(keywords) |-> Query(topic, keywords[i])]
        intentQueries == [i \in 1..Len(IntentSuffixes) |-> Query(topic, IntentSuffixes[i])]
                           \o IndustryQueries(topic)
    IN  Slice(baseQueries \o keywordQueries \o intentQueries, 15)

generateStrategicQueries(v, topic, keywords) ==
    IF v = "simple" THEN generateStrategicQueries_Simple(topic, keywords)
    ELSE generateStrategicQueries_Enhanced(topic, keywords)

\* the topics and the keyword lists explored
PlanTopics ==
    { <<"s", "e", "o">>, <<"m", "a", "r", "k", "e", "t", "i", "n", "g">>,
      <<"s", "a", "a", "s">>,
      <<"e", "m", "a", "i", "l", " ", "m", "a", "r", "k", "e", "t", "i", "n", "g">>,
      <<"s", "e", "o", " ", "g", "u", "i", "d", "e">>, <<"p", "o", "l", "i", "c", "e">>,
      <<"B", "l", "o", "g", " ", "t", "i", "p", "s">> }

PlanKeywords ==
    { <<>>,
      << <<"g", "u", "i", "d", "e">> >>,
      << <<"t", "i", "p", "s">>, <<"t", "i", "p", "s">> >>,
      << <<"b">>, <<"a">> >>,
      << <<"a", "b">> >>,
      << <<"t", "r", "e", "n", "d", "s", " ", "2", "0", "2", "4">>, <<"a">> >>,
      << <<"a">>, <<"b">>, <<"s">>, <<"a", "b">> >>,
      << <<"a">>, <<"b">>, <<"s">>, <<"a", "b">>, <<"b", "a">>, <<"s", "a">>, <<"a", "s">>, <<"b", "s">>, <<"e", "x", "a", "m", "p", "l", "e", "s">> >> }

ReadyPlan(topic, keywords) ==
    [pc |-> "ready", topic |-> topic, keywords |-> keywords, class |-> "none",
     queries |-> <<>>, again |-> <<>>]

\* generateStrategicQueries is called
PlanQueries(v) ==
    /\ plan.pc = "ready"
    /\ plan' = [plan EXCEPT !.pc = "planned", !.class = v,
                            !.queries = generateStrategicQueries(v, plan.topic, plan.keywords)]
    /\ UNCHANGED <<researchVars, fanout, summ, gen, parse, route, keying, ranking, seo, process, service>>

\* it is called once more with the same arguments
PlanAgain ==
    /\ plan.pc = "planned"
    /\ plan' = [plan EXCEPT !.pc = "done",
                            !.again = generateStrategicQueries(plan.class, plan.topic,
                                                               plan.keywords)]
    /\ UNCHANGED <<researchVars, fanout, summ, gen, parse, route, keying, ranking, seo, process, service>>

InitPlan ==
    /\ plan \in {ReadyPlan(topic, keywords) : topic \in PlanTopics, keywords \in PlanKeywords}
    /\ ResearchOff
    /\ fanout = Off /\ summ = Off /\ gen = Off /\ parse = Off /\ route = Off
    /\ keying = Off /\ ranking = Off /\ seo = Off /\ process = Off /\ service = Off

NextPlan ==
    \/ \E v \in {"simple", "enhanced"} : PlanQueries(v)
    \/ PlanAgain

SpecPlan == InitPlan /\ [][NextPlan]_vars

-----------------------------------------------------------------------------
(* One rankAndFilterSources call and the extraction it feeds *)

\* the hits a query can add to the batch
MaxHits == 3

RankTopic == Chars_seo

\* the hits explored, by what the scorer sees of them: an unknown domain with
\* a long snippet (10), an unknown domain and a recent date (20), a .com
\* domain (50), a recent article of forbes.com (115, capped to 100)
HitKinds == {"low", "mid", "high", "top"}

HitOfKind(kind, id) ==
    IF kind = "low" THEN Hit(Link(id, {}), NoDate, <<"x">>, 101)
    ELSE IF kind = "mid" THEN Hit(Link(id, {}), 10, <<"x">>, 0)
    ELSE IF kind = "high" THEN Hit(Link(id, {".com"}), NoDate, <<"x">>, 0)
    ELSE Hit(Link(id, {"forbes.com", ".com"}), 10, <<"x">>, 0)

\* the hits the earlier queries of the batch returned
EarlierKinds ==
    { <<>>,
      <<"high", "top", "high", "top", "high", "top">>,
      <<"mid", "mid", "low", "mid", "mid", "mid">> }

Collecting(kinds) ==
    [pc |-> "collecting", results |-> [i \in 1..Len(kinds) |-> HitOfKind(kinds[i], i)],
     sources |-> <<>>, inflight |-> 0, added |-> 0]

\* flatResults grows by one more hit of the batch
Discover(kind) ==
    /\ ranking.pc = "collecting"
    /\ ranking.added < MaxHits
    /\ ranking' = [ranking EXCEPT
                     !.results = Append(@, HitOfKind(kind, Len(@) + 1)),
                     !.added = @ + 1]
    /\ UNCHANGED <<researchVars, fanout, summ, gen, parse, route, keying, plan, seo, process, service>>

\* rankAndFilterSources(allResults, topic)
Rank ==
    /\ ranking.pc = "collecting"
    /\ ranking' = [ranking EXCEPT
                     !.pc = "ranked",
                     !.sources = rankAndFilterSources(ranking.results, RankTopic, 0)]
    /\ UNCHANGED <<researchVars, fanout, summ, gen, parse, route, keying, plan, seo, process, service>>

\* extractContentWithAttribution, called when qualitySources is not empty:
\* sources.map starts one extraction per source
\* before Promise.all awaits any of them
Extract ==
    /\ ranking.pc = "ranked"
    /\ Len(ranking.sources) # 0
    /\ ranking' = [ranking EXCEPT !.pc = "extracting", !.inflight = Len(ranking.sources)]
    /\ UNCHANGED <<researchVars, fanout, summ, gen, parse, route, keying, plan, seo, process, service>>

InitRank ==
    /\ ranking \in {Collecting(kinds) : kinds \in EarlierKinds}
    /\ ResearchOff
    /\ fanout = Off /\ summ = Off /\ gen = Off /\ parse = Off /\ route = Off
    /\ keying = Off /\ plan = Off /\ seo = Off /\ process = Off /\ service = Off

NextRank ==
    \/ \E kind \in HitKinds : Discover(kind)
    \/ Rank
    \/ Extract

SpecRank == InitRank /\ [][NextRank]_vars

-----------------------------------------------------------------------------
(* Two hits that differ in domain and age, scored and ranked *)

\* the links explored: the host of the URL and the substrings the scorer
\* looks for that the URL contains
ScoredUrls ==
    { [has |-> {"forbes.com", ".com"}, host |-> "forbes.com"],
      [has |-> {"hbr.org", ".org"}, host |-> "hbr.org"],
      [has |-> {}, host |-> "example.xyz"],
      [has |-> {".com"}, host |-> "example.com"],
      [has |-> {"forbes.com", ".com"}, host |-> "notforbes.com"] }

\* the authority the table gives to a host, 0 when the host is not in it
HostAuthority(host) ==
    LET hit == {i \in 1..Len(authoritativeDomains) : authoritativeDomains[i][1] = host}
    IN  IF hit = {} THEN 0 ELSE authoritativeDomains[CHOOSE i \in hit : TRUE][2]

ScoreTopics ==
    { Chars_seo, Chars_saas, <<"a", "i">>, <<"s", "e", "o", " ", "s", "a", "a", "s">> }

ScoreTitles ==
    { <<>>, <<"x">>, <<"S", "E", "O">>, <<"s", "a", "a", "s", " ", "t", "i", "p", "s">> }

\* the two hits share title and snippet; the one published 3 years ago is
\* discovered before the one published 10 days ago
Unscored(topic, recentUrl, oldUrl, title, snippetLen, b2bWords) ==
    [pc |-> "unscored", topic |-> topic,
     results |-> << [Hit(Link(1, oldUrl.has), 3 * 365, title, snippetLen)
                       EXCEPT !.b2bWords = b2bWords],
                    [Hit(Link(2, recentUrl.has), 10, title, snippetLen)
                       EXCEPT !.b2bWords = b2bWords] >>,
     sources |-> <<>>,
     hosts |-> <<oldUrl.host, recentUrl.host>>, scores |-> <<>>]

\* scoredResults of rankAndFilterSources
ScoreHits ==
    /\ ranking.pc = "unscored"
    /\ ranking' = [ranking EXCEPT
                     !.pc = "scored",
                     !.scores = [i \in 1..2 |->
                                   calculateSourceScore(ranking.results[i], ranking.topic, 0)]]
    /\ UNCHANGED <<researchVars, fanout, summ, gen, parse, route, keying, plan, seo, process, service>>

\* the filter, the sort and the slice of rankAndFilterSources
RankHits ==
    /\ ranking.pc = "scored"
    /\ ranking' = [ranking EXCEPT
                     !.pc = "ranked",
                     !.sources = rankAndFilterSources(ranking.results, ranking.topic, 0)]
    /\ UNCHANGED <<researchVars, fanout, summ, gen, parse, route, keying, plan, seo, process, service>>

InitScore ==
    /\ ranking \in {Unscored(topic, recentUrl, oldUrl, title, snippetLen, b2bWords) :
                      topic \in ScoreTopics,
                      recentUrl \in {u \in ScoredUrls : HostAuthority(u.host) = 95},
                      oldUrl \in {u \in ScoredUrls : HostAuthority(u.host) = 0},
                      title \in ScoreTitles, snippetLen \in {0, 101},
                      b2bWords \in BOOLEAN}
    /\ ResearchOff
    /\ fanout = Off /\ summ = Off /\ gen = Off /\ parse = Off /\ route = Off
    /\ keying = Off /\ plan = Off /\ seo = Off /\ process = Off /\ service = Off

NextScore ==
    \/ ScoreHits
    \/ RankHits

SpecScore == InitScore /\ [][NextScore]_vars

-----------------------------------------------------------------------------
(* The SEO analysis *)

\* Densities are in hundredths of a percent: 0.5% is 50, 2.5% is 250
DEFAULT_MIN_KEYWORD_DENSITY == 50
DEFAULT_MAX_KEYWORD_DENSITY == 250
DEFAULT_READABILITY_TARGET == 60

Max(a, b) == IF a > b THEN a ELSE b

\* A content is known by what the analysis measures of it: for each lower-cased
\* word the density of its whole-word matches, the rounded Flesch reading
\* ease, and the number of markdown headings
Measure(content, word) ==
    IF word \in DOMAIN content.density THEN content.density[word] ELSE 0

\* calculateKeywordDensity: one entry per distinct keyword, in the order of
\* first occurrence (the keys of the record)
calculateKeywordDensity(content, keywords) ==
    LET First(i) == \A j \in 1..(i - 1) : keywords[j] # keywords[i]
        keys == SelectSeq([i \in 1..Len(keywords) |-> i], First)
    IN  [n \in 1..Len(keys) |->
            [density |-> Measure(content, toLowerCase(keywords[keys[n]])),
             keyword |-> keywords[keys[n]]]]

\* an option of SEOAnalysisOptions, or its default when it is not given
OptionOr(options, name, default) ==
    IF name \in DOMAIN options THEN options[name] ELSE default

Recommendation(type, priority, subject) ==
    [type |-> type, priority |-> priority, message |-> <<type, priority, subject>>]

\* generateSEORecommendations
generateSEORecommendations(content, keywordDensity, readabilityScore, internalLinks, options) ==
    LET min_keyword_density ==
            OptionOr(options, "min_keyword_density", DEFAULT_MIN_KEYWORD_DENSITY)
        max_keyword_density ==
            OptionOr(options, "max_keyword_density", DEFAULT_MAX_KEYWORD_DENSITY)
        readability_target ==
            OptionOr(options, "readability_target", DEFAULT_READABILITY_TARGET)
        keyword == Flat([i \in 1..Len(keywordDensity) |->
                      IF keywordDensity[i].density < min_keyword_density
                      THEN <<Recommendation("keyword", "high", keywordDensity[i].keyword)>>
                      ELSE IF keywordDensity[i].density > max_keyword_density
                      THEN <<Recommendation("keyword", "medium", keywordDensity[i].keyword)>>
                      ELSE <<>>])
        readability == IF readabilityScore < readability_target
                       THEN <<Recommendation("readability", "high", <<>>)>> ELSE <<>>
        links == IF Len(internalLinks) = 0 THEN <<Recommendation("links", "medium", <<>>)>>
                 ELSE IF Len(internalLinks) < 3 THEN <<Recommendation("links", "low", <<>>)>>
                 ELSE <<>>
        structure == IF content.headings < 2
                     THEN <<Recommendation("structure", "medium", <<>>)>> ELSE <<>>
    IN  keyword \o readability \o links \o structure

HighPriority(r) == r.priority = "high"

\* a score whose floor is 50
calculateSEOScore_Floor50(keywordDensity, readabilityScore, internalLinkCount, recommendations) ==
    LET outside == {i \in 1..Len(keywordDensity) :
                       \/ keywordDensity[i].density < DEFAULT_MIN_KEYWORD_DENSITY
                       \/ keywordDensity[i].density > DEFAULT_MAX_KEYWORD_DENSITY}
        shortfall == IF readabilityScore < DEFAULT_READABILITY_TARGET
                     THEN Max(0, DEFAULT_READABILITY_TARGET - readabilityScore) ELSE 0
        links == IF internalLinkCount = 0 THEN 15 ELSE IF internalLinkCount < 3 THEN 5 ELSE 0
        highPriorityIssues == Len(SelectSeq(recommendations, HighPriority))
        twice == 200 - 20 * Cardinality(outside) - shortfall - 2 * links
                     - 20 * highPriorityIssues
    IN  Max(50, (twice + 1) \div 2)

\* calculateSEOScore. The score is kept doubled until it is rounded, since the
\* readability penalty is half the shortfall; Math.round rounds halves up
calculateSEOScore(keywordDensity, readabilityScore, internalLinkCount, recommendations) ==
    LET outside == {i \in 1..Len(keywordDensity) :
                       \/ keywordDensity[i].density < DEFAULT_MIN_KEYWORD_DENSITY
                       \/ keywordDensity[i].density > DEFAULT_MAX_KEYWORD_DENSITY}
        shortfall == IF readabilityScore < DEFAULT_READABILITY_TARGET
                     THEN Max(0, DEFAULT_READABILITY_TARGET - readabilityScore) ELSE 0
        links == IF internalLinkCount = 0 THEN 15 ELSE IF internalLinkCount < 3 THEN 5 ELSE 0
        highPriorityIssues == Len(SelectSeq(recommendations, HighPriority))
        twice == 200 - 20 * Cardinality(outside) - shortfall - 2 * links
                     - 20 * highPriorityIssues
    IN  Max(0, (twice + 1) \div 2)

\* the Levenshtein distance, row by row: Cell is the row of the prefix of a
\* that ends with c, built left to right from the row before it
RECURSIVE LevCells(_, _, _, _)
LevCells(prev, c, b, row) ==
    IF Len(row) = Len(prev) THEN row
    ELSE LET j == Len(row)
             cost == IF b[j] = c THEN 0 ELSE 1
         IN  LevCells(prev, c, b,
                      Append(row, Min(Min(prev[j + 1] + 1, row[j] + 1), prev[j] + cost)))

RECURSIVE LevRows(_, _, _, _)
LevRows(a, b, i, prev) ==
    IF i > Len(a) THEN prev[Len(b) + 1]
    ELSE LevRows(a, b, i + 1, LevCells(prev, a[i], b, <<i>>))

Levenshtein(a, b) == LevRows(a, b, 1, [j \in 1..(Len(b) + 1) |-> j - 1])

\* urlPath.split(/[\/\-_]+/).filter(w => w.length > 0)
RECURSIVE PathWords(_, _)
PathWords(path, word) ==
    IF path = <<>> THEN (IF word = <<>> THEN <<>> ELSE <<word>>)
    ELSE IF Head(path) \in {"/", "-", "_"}
         THEN (IF word = <<>> THEN <<>> ELSE <<word>>) \o PathWords(Tail(path), <<>>)
         ELSE PathWords(Tail(path), Append(word, Head(path)))

\* An internal URL is absolute; it is known by its identity and its pathname
Url(href, pathname) == [href |-> href, pathname |-> pathname]
NoUrl == Url("null", <<>>)

urlWords(url) == PathWords(url.pathname, <<>>)

\* Relevances 1 / (distance + 1) are kept as multiples of 1 / RelevanceUnit,
\* exact for the distances up to 6 that texts of at most 6 characters have
RelevanceUnit == 3 * 4 * 5 * 7
WordRelevance(keyword, urlWord) ==
    RelevanceUnit \div (Levenshtein(toLowerCase(keyword), toLowerCase(urlWord)) + 1)

\* relevance > 0.3
AboveThreshold(relevance) == 10 * relevance > 3 * RelevanceUnit

\* the loops of findBestInternalUrl over the words of every URL
RECURSIVE BestOf(_, _, _, _)
BestOf(keyword, candidates, bestScore, bestMatch) ==
    IF candidates = <<>> THEN bestMatch
    ELSE LET relevance == WordRelevance(keyword, Head(candidates).urlWord)
         IN  IF relevance > bestScore /\ AboveThreshold(relevance)
             THEN BestOf(keyword, Tail(candidates), relevance, Head(candidates).url)
             ELSE BestOf(keyword, Tail(candidates), bestScore, bestMatch)

findBestInternalUrl(keyword, urls) ==
    LET candidates ==
            Flat([u \in 1..Len(urls) |->
                    [w \in 1..Len(urlWords(urls[u])) |->
                        [url |-> urls[u], urlWord |-> urlWords(urls[u])[w]]]])
    IN  BestOf(keyword, candidates, 0, NoUrl)

\* calculateRelevanceScore: Math.round(maxRelevance * 100)
calculateRelevanceScore(keyword, url) ==
    LET words == urlWords(url)
        relevances == {WordRelevance(keyword, words[w]) : w \in 1..Len(words)} \cup {0}
        maxRelevance == CHOOSE r \in relevances : \A s \in relevances : s <= r
    IN  (200 * maxRelevance + RelevanceUnit) \div (2 * RelevanceUnit)

\* findInternalLinkOpportunities
findInternalLinkOpportunities(content, keywords, existingInternalLinks) ==
    LET existingUrls == [i \in 1..Len(existingInternalLinks) |-> existingInternalLinks[i].url]
        Opportunity(keyword) ==
            LET keywordLower == toLowerCase(keyword)
                alreadyLinked ==
                    \E i \in 1..Len(existingInternalLinks) :
                        includes(toLowerCase(existingInternalLinks[i].text), keywordLower)
                bestMatch == findBestInternalUrl(keyword, existingUrls)
            IN  IF Measure(content, keywordLower) > 0 /\ ~alreadyLinked /\ bestMatch # NoUrl
                THEN << [k |-> calculateRelevanceScore(keyword, bestMatch),
                         v |-> [text |-> keyword, url |-> bestMatch,
                                relevance |-> calculateRelevanceScore(keyword, bestMatch)]] >>
                ELSE <<>>
        opportunities == SortDesc(Flat([i \in 1..Len(keywords) |-> Opportunity(keywords[i])]))
    IN  [i \in 1..Len(opportunities) |-> opportunities[i].v]

\* analyzeContent(content, options): the SEOAnalysis it returns (without its
\* timestamp) and the seoScore it computes
analyzeContent(content, options) ==
    LET target_keywords == OptionOr(options, "target_keywords", <<>>)
        keywordDensity == calculateKeywordDensity(content, target_keywords)
        readabilityScore == content.readability
        internalLinks == findInternalLinkOpportunities(content, target_keywords, <<>>)
        recommendations == generateSEORecommendations(content, keywordDensity,
                                                      readabilityScore, internalLinks, options)
        seoScore == calculateSEOScore(keywordDensity, readabilityScore, Len(internalLinks),
                                      recommendations)
    IN  [seoScore |-> seoScore,
         returned |-> [id |-> "",
                       suggestions |-> [i \in 1..Len(recommendations) |->
                                           recommendations[i].message],
                       draft_id |-> "",
                       keyword_density |-> keywordDensity,
                       readability_score |-> readabilityScore,
                       internal_links |-> internalLinks]]

\* the contents, keywords, options and internal links explored
Word_seo == Chars_seo
Word_saas == Chars_saas

ReadabilityScores == {0 - 200, 30, 59, 60, 75}

SeoContents ==
    { [density |-> [w \in {Word_seo, Word_saas} |-> IF w = Word_seo THEN d1 ELSE d2],
       readability |-> r, headings |-> h] :
         d1 \in {0, 150, 300}, d2 \in {0, 150}, r \in ReadabilityScores, h \in {0, 2} }

SeoKeywords ==
    { <<>>, <<Word_seo>>, << <<"S", "a", "a", "s">>, Word_seo >>, <<Word_seo, Word_seo>> }

SeoOptions(keywords) ==
    { [target_keywords |-> keywords],
      [min_keyword_density |-> 0, target_keywords |-> keywords],
      [min_keyword_density |-> 200, max_keyword_density |-> 400,
       readability_target |-> 80, target_keywords |-> keywords] }

\* existing internal links: the text of the link and its URL
InternalLinks ==
    { <<>>,
      << [text |-> <<"b", "l", "o", "g">>,
          url |-> Url("https://site.example/blog/seo-tips",
                      <<"/", "b", "l", "o", "g", "/", "s", "e", "o", "-", "t", "i", "p", "s">>)] >>,
      << [text |-> <<"t", "o", "o", "l", "s">>,
          url |-> Url("https://site.example/saas_b2b",
                      <<"/", "s", "a", "a", "s", "_", "b", "2", "b">>)],
         [text |-> <<"S", "e", "o">>,
          url |-> Url("https://site.example/sea",
                      <<"/", "s", "e", "a">>)] >> }

\* a caller holds a content, options and the internal links of the workspace
ReadySeo(content, options, existing) ==
    [pc |-> "ready", content |-> content, again |-> <<>>, options |-> options,
     seoScore |-> 0, existing |-> existing, analysis |-> <<>>]

\* analyzeContent(content, options) returns
Analyze ==
    /\ seo.pc = "ready"
    /\ LET done == analyzeContent(seo.content, seo.options)
       IN  seo' = [seo EXCEPT !.pc = "analysed", !.analysis = done.returned,
                              !.seoScore = done.seoScore]
    /\ UNCHANGED <<researchVars, fanout, summ, gen, parse, route, keying, plan, ranking, process, service>>

\* it is called once more with the same arguments
AnalyzeAgain ==
    /\ seo.pc = "analysed"
    /\ seo' = [seo EXCEPT !.pc = "done",
                          !.again = analyzeContent(seo.content, seo.options).returned]
    /\ UNCHANGED <<researchVars, fanout, summ, gen, parse, route, keying, plan, ranking, process, service>>

InitSeo ==
    /\ seo \in {ReadySeo(content, options, existing) :
                  content \in SeoContents,
                  options \in UNION {SeoOptions(keywords) : keywords \in SeoKeywords},
                  existing \in InternalLinks}
    /\ ResearchOff
    /\ fanout = Off /\ summ = Off /\ gen = Off /\ parse = Off /\ route = Off
    /\ keying = Off /\ plan = Off /\ ranking = Off /\ process = Off /\ service = Off

NextSeo ==
    \/ Analyze
    \/ AnalyzeAgain

SpecSeo == InitSeo /\ [][NextSeo]_vars

\* Two texts scored with the same readability and the same internal links:
\* the second is the first with the density of the first keyword raised from
\* 0% to 1.5%
Aggregate(content, keywords, internalLinks, options) ==
    LET keywordDensity == calculateKeywordDensity(content, keywords)
    IN  calculateSEOScore(keywordDensity, content.readability, Len(internalLinks),
                          generateSEORecommendations(content, keywordDensity,
                                                     content.readability, internalLinks,
                                                     options))

SomeLinks(n) ==
    [i \in 1..n |-> [text |-> Word_seo, url |-> NoUrl, relevance |-> 100]]

Unrated(content, options, linkCount) ==
    [pc |-> "unrated", content |-> content, options |-> options,
     internalLinks |-> SomeLinks(linkCount), seoScore |-> 0, before |-> 0]

\* the text is scored
RateText ==
    /\ seo.pc = "unrated"
    /\ seo' = [seo EXCEPT !.pc = "rated",
                          !.seoScore = Aggregate(seo.content, seo.options.target_keywords,
                                                 seo.internalLinks, seo.options)]
    /\ UNCHANGED <<researchVars, fanout, summ, gen, parse, route, keying, plan, ranking, process, service>>

\* the text with the keyword at 1.5% is scored
RaiseDensity ==
    /\ seo.pc = "rated"
    /\ Len(seo.options.target_keywords) > 0
    /\ LET keyword == toLowerCase(seo.options.target_keywords[1])
           denser == [seo.content EXCEPT !.density[keyword] = 150]
       IN  /\ Measure(seo.content, keyword) = 0
           /\ seo' = [seo EXCEPT !.pc = "rerated", !.content = denser,
                                 !.before = seo.seoScore,
                                 !.seoScore = Aggregate(denser, seo.options.target_keywords,
                                                        seo.internalLinks, seo.options)]
    /\ UNCHANGED <<researchVars, fanout, summ, gen, parse, route, keying, plan, ranking, process, service>>

InitDensity ==
    /\ seo \in {Unrated(content, options, linkCount) :
                  content \in SeoContents,
                  options \in UNION {SeoOptions(keywords) : keywords \in SeoKeywords},
                  linkCount \in {0, 1, 3}}
    /\ ResearchOff
    /\ fanout = Off /\ summ = Off /\ gen = Off /\ parse = Off /\ route = Off
    /\ keying = Off /\ plan = Off /\ ranking = Off /\ process = Off /\ service = Off

NextDensity ==
    \/ RateText
    \/ RaiseDensity

SpecDensity == InitDensity /\ [][NextDensity]_vars

-----------------------------------------------------------------------------
(* Two researchTopic calls on one ResearchAgent that may overlap *)

OverlapCallers == {"r1", "r2"}

\* two spellings of one topic: both give the cache key "seo:"
OverlapRequests ==
    { [topic |-> <<"S", "e", "o">>, keywords |-> <<>>],
      [topic |-> <<" ", "s", "e", "o">>, keywords |-> <<>>] }

OverlapOutcomes == { SearchError, Organic(<<hTop, hWeak, NullHit, hNoLink>>) }

InitOverlap ==
    /\ variant \in {"simple", "enhanced"}
    /\ now = 0
    /\ ticks = 0
    /\ researchCache = CacheClear(<<>>)
    /\ rcall = [c \in OverlapCallers |-> IdleCall]
    /\ started = 0
    /\ fanout = Off /\ summ = Off /\ gen = Off /\ parse = Off /\ route = Off
    /\ OthersOff

NextOverlap ==
    \/ \E c \in OverlapCallers, req \in OverlapRequests : StartResearch(c, req)
    \/ \E c \in OverlapCallers, outcomes \in [1..PlanLen -> OverlapOutcomes] :
          SearchDone(c, outcomes)
    \/ \E c \in OverlapCallers :
          \E responses \in [1..Len(rcall[c].sources) -> SummaryResponses] :
             SummarizeDone(c, responses)
    \/ \E c \in OverlapCallers, resp \in FallbackResponses : FallbackDone(c, resp)
    \/ Tick(1)

SpecOverlap == InitOverlap /\ [][NextOverlap]_vars

-----------------------------------------------------------------------------
(* The acceptance test of the first draft, over targets and word counts *)

MaxTarget == 45

Untested(target, count) ==
    [pc |-> "untested", target |-> target, count |-> count, accepted |-> FALSE]

\* the test of the first draft: the draft is returned when it passes, a
\* retry is asked for when it does not
TestWindow ==
    /\ gen.pc = "untested"
    /\ gen' = [gen EXCEPT !.pc = IF InWindow(gen.count, gen.target) THEN "returned" ELSE "retry",
                          !.accepted = InWindow(gen.count, gen.target)]
    /\ UNCHANGED <<researchVars, fanout, summ, parse, route, otherVars>>

InitWindow ==
    /\ gen \in {Untested(target, count) : target \in 1..MaxTarget, count \in 0..(MaxTarget + 5)}
    /\ ResearchOff
    /\ fanout = Off /\ summ = Off /\ parse = Off /\ route = Off
    /\ OthersOff

NextWindow == TestWindow

SpecWindow == InitWindow /\ [][NextWindow]_vars

-----------------------------------------------------------------------------
(* OpenAIService: the request queue and its drain *)

\* calls of generateContent and generateContentStream explored
MaxQueued == 3

\* a request of the queue: the closure pushed by generateContent ("content")
\* or generateContentStream ("stream"), the promise its caller holds, and
\* whether the queue was being drained when it was pushed
QueuedRequest(kind, busy) ==
    [kind |-> kind, busy |-> busy, phase |-> "queued", ok |-> FALSE, promise |-> "pending"]

NewService ==
    [pc |-> "on", requests |-> <<>>, requestQueue |-> <<>>, processing |-> FALSE,
     loops |-> {}, order |-> <<>>]

\* const request = this.requestQueue.shift(); await request(): the loop takes
\* the head of the queue and runs it up to its chat completion call
ShiftAndRun(s) ==
    LET request == Head(s.requestQueue)
    IN  [s EXCEPT !.requestQueue = Tail(@),
                  !.requests[request].phase = "api",
                  !.loops = @ \cup {[at |-> "request", req |-> request]},
                  !.order = Append(@, request)]

\* a processQueue that does not test the processing flag
processQueue_Reentrant(s) ==
    IF Len(s.requestQueue) = 0 THEN s
    ELSE ShiftAndRun([s EXCEPT !.processing = TRUE])

\* processQueue() up to its first await
processQueue(s) ==
    IF s.processing \/ Len(s.requestQueue) = 0 THEN s
    ELSE ShiftAndRun([s EXCEPT !.processing = TRUE])

\* the executor of the promise: the request is pushed and processQueue is
\* called
Enqueue(kind) ==
    /\ service.pc = "on"
    /\ Len(service.requests) < MaxQueued
    /\ service' = processQueue(
           [service EXCEPT
               !.requests = Append(@, QueuedRequest(kind, service.processing)),
               !.requestQueue = Append(@, Len(service.requests) + 1)])
    /\ UNCHANGED <<researchVars, fanout, summ, gen, parse, route, keying, plan, ranking, seo,
                   process>>

generateContent == Enqueue("content")

generateContentStream == Enqueue("stream")

\* the chat completion of the running request ends: it answers (and, for a
\* stream, every chunk is delivered), or it throws (for a stream, also when
\* onChunk throws)
CompletionSettles(request, ok) ==
    /\ service.pc = "on"
    /\ request \in 1..Len(service.requests)
    /\ service.requests[request].phase = "api"
    /\ service' = [service EXCEPT !.requests[request].phase = "track",
                                  !.requests[request].ok = ok]
    /\ UNCHANGED <<researchVars, fanout, summ, gen, parse, route, keying, plan, ranking, seo,
                   process>>

\* trackAPIUsage returns (it never throws): the promise is resolved or
\* rejected, the request function returns and its loop starts the delay
TrackSettles(request) ==
    /\ service.pc = "on"
    /\ request \in 1..Len(service.requests)
    /\ service.requests[request].phase = "track"
    /\ service' = [service EXCEPT
           !.requests[request].phase = "done",
           !.requests[request].promise =
               IF service.requests[request].ok THEN "resolved" ELSE "rejected",
           !.loops = (@ \ {[at |-> "request", req |-> request]})
                        \cup {[at |-> "delay", req |-> request]}]
    /\ UNCHANGED <<researchVars, fanout, summ, gen, parse, route, keying, plan, ranking, seo,
                   process>>

\* the delay of a loop ends: while (this.requestQueue.length > 0) takes the
\* next request, or the loop ends with this.processing = false
DelayDone(loop) ==
    /\ service.pc = "on"
    /\ loop \in service.loops
    /\ loop.at = "delay"
    /\ LET rest == [service EXCEPT !.loops = @ \ {loop}]
       IN  service' = IF Len(service.requestQueue) > 0 THEN ShiftAndRun(rest)
                      ELSE [rest EXCEPT !.processing = FALSE]
    /\ UNCHANGED <<researchVars, fanout, summ, gen, parse, route, keying, plan, ranking, seo,
                   process>>

InitService ==
    /\ service = NewService
    /\ ResearchOff
    /\ fanout = Off /\ summ = Off /\ gen = Off /\ parse = Off /\ route = Off
    /\ keying = Off /\ plan = Off /\ ranking = Off /\ seo = Off /\ process = Off

SomeCompletionSettles ==
    \E request \in 1..MaxQueued, ok \in BOOLEAN : CompletionSettles(request, ok)

SomeTrackSettles == \E request \in 1..MaxQueued : TrackSettles(request)

SomeDelayDone == \E loop \in service.loops : DelayDone(loop)

NextService ==
    \/ generateContent
    \/ generateContentStream
    \/ SomeCompletionSettles
    \/ SomeTrackSettles
    \/ SomeDelayDone

SpecService == InitService /\ [][NextService]_vars

\* every chat completion call, every trackAPIUsage call and every timer ends
SpecServiceLive ==
    /\ SpecService
    /\ WF_vars(SomeCompletionSettles)
    /\ WF_vars(SomeTrackSettles)
    /\ WF_vars(SomeDelayDone)

-----------------------------------------------------------------------------
(* Claims about the research cache *)

\* C1 (as stated): once a researchTopic call has completed, a later call with
\* the same topic and keywords made less than CACHE_TTL after it returns the
\* same summaries and issues no search and no model call; one made at or
\* after expiry runs the search pipeline again.
C1_RepeatServedFromCache ==
    [][\A c \in Callers :
          (/\ rcall[c].pc = "done"
           /\ started' = started + 1
           /\ rcall'[c].topic = rcall[c].topic
           /\ rcall'[c].keywords = rcall[c].keywords)
          => IF rcall'[c].at - rcall[c].doneAt < CACHE_TTL
             THEN /\ rcall'[c].pc = "done"
                  /\ rcall'[c].result = rcall[c].result
                  /\ rcall'[c].searchCalls = 0
                  /\ rcall'[c].modelCalls = 0
             ELSE rcall'[c].searchCalls > 0]_vars

\* C1 (amended): a call that finds an entry under its key written less than
\* CACHE_TTL before returns that entry's summaries at once, with no search and
\* no model call; every other call (no entry, or an entry of age CACHE_TTL or
\* more) runs the search pipeline.  A completed call that wrote leaves the
\* entry holding its result, stamped with its completion time.
C1_FreshEntryServed ==
    \A c \in Callers :
        LET call == rcall[c]
            entry == CacheGet(researchCache, call.key)
        IN  call.pc # "idle" =>
              /\ IF call.seen # NoEntry /\ call.at - call.seen.timestamp < CACHE_TTL
                 THEN /\ call.pc = "done"
                      /\ call.origin = "cache"
                      /\ call.result = call.seen.summaries
                      /\ call.searchCalls = 0
                      /\ call.modelCalls = 0
                 ELSE /\ call.origin # "cache"
                      /\ call.searchCalls > 0
              /\ (call.pc = "done" /\ call.wrote) =>
                    /\ entry # NoEntry
                    /\ entry.summaries = call.result
                    /\ entry.timestamp = call.doneAt

\* C1 witness: the second call, made one millisecond before the entry of the
\* first expires, has been served from the cache
C1_Witness ==
    \E c \in Callers :
        /\ rcall[c].pc = "done"
        /\ rcall[c].origin = "cache"
        /\ rcall[c].seen # NoEntry
        /\ rcall[c].result # <<>>
        /\ rcall[c].at = rcall[c].seen.timestamp + CACHE_TTL - 1
        /\ started = 2

\* summaries that no source stands behind: the hardcoded template of
\* createBasicFallbackResearch and the output of the fallback model call
Fabricated(summaries) ==
    \E i \in 1..Len(summaries) :
        summaries[i].url \in {createBasicFallbackResearch(0)[1].url, FallbackSummary(0).url}

\* C7: a run that ends with no usable source (no hit, no hit passing the
\* ranking, or every summarization failed) returns the empty list; no call
\* returns, and the cache never holds, summaries of the fallback model call or
\* of the hardcoded template.
C7_NoFabricatedResearch ==
    /\ \A c \in Callers :
          rcall[c].pc = "done" =>
             /\ ~Fabricated(rcall[c].result)
             /\ (rcall[c].origin # "cache" /\ rcall[c].usable = 0) => rcall[c].result = <<>>
    /\ \A k \in DOMAIN researchCache : ~Fabricated(researchCache[k].summaries)

\* C10 (as stated): an entry is written only by a run whose search, ranking
\* and summarization all succeeded: not by a run that failed, returned
\* nothing, or lost a source to a failed query or a failed summarization.
C10_WrittenOnlyOnFullSuccess ==
    \A c \in Callers :
        (rcall[c].pc = "done" /\ rcall[c].wrote) =>
            /\ rcall[c].origin = "pipeline"
            /\ rcall[c].result # <<>>
            /\ ~rcall[c].lost

\* C10 (amended): an entry is written only as the last step of a run whose
\* pipeline returned to researchTopic without an exception, and it holds the
\* list that run returns.  The simplified class writes it exactly when that
\* list is not empty, also after losing sources; the enhanced class writes it
\* for every list its pipeline returns (empty or from its fallback) and not
\* on the exception path.  A call served from the cache writes nothing.
C10_WrittenAtPipelineReturn ==
    \A c \in Callers :
        LET call == rcall[c]
            entry == CacheGet(researchCache, call.key)
        IN  /\ call.pc \in {"searching", "summarizing", "fallback"} => entry = NoEntry
            /\ call.pc = "done" =>
                  /\ call.wrote =>
                        /\ call.origin # "cache"
                        /\ ~call.viaCatch
                        /\ entry # NoEntry
                        /\ entry.summaries = call.result
                        /\ entry.timestamp = call.doneAt
                  /\ (variant = "simple" /\ call.origin # "cache") =>
                        (call.wrote <=> call.result # <<>>)
                  /\ (variant = "enhanced" /\ call.origin # "cache") =>
                        (call.wrote <=> ~call.viaCatch)
                  /\ (~call.wrote /\ call.origin # "cache") => entry = NoEntry

\* C10 witness: the simplified class has cached the summaries of a run that
\* lost a source
C10_Witness ==
    \E c \in Callers :
        /\ variant = "simple"
        /\ rcall[c].pc = "done"
        /\ rcall[c].wrote
        /\ rcall[c].lost
        /\ rcall[c].usable < Len(rcall[c].sources)
        /\ CacheGet(researchCache, rcall[c].key) # NoEntry

-----------------------------------------------------------------------------
(* Claims about the word-count retry *)

\* the window of the specification, [target * 0.95, target * 1.05], on a
\* count of whitespace-separated tokens
InSpecWindow(count, target) == 100 * count >= 95 * target /\ 100 * count <= 105 * target

\* the tokens of a draft's content, when it is a string
HasTokens(parsed) == parsed # ParsedNull /\ Field(parsed, "content").ty = "str"
Tokens(parsed) == IF Field(parsed, "content").x < 0 THEN 0 ELSE Field(parsed, "content").x

FirstDraft == ParseDraft(gen.agent, gen.first.content, "Content")
RetryDraft == ParseDraft(gen.agent, gen.retry.content, "Content Retry")

\* C2: a run issues the draft-generation call once or twice; the second call
\* (the retry) is issued exactly when the first draft parsed and its token
\* count is outside the window, and a first draft inside the window is
\* returned without a retry.
C2_AtMostOneRetry ==
    gen.pc \notin {"off", "idle"} =>
        /\ gen.calls \in {1, 2}
        /\ gen.pc = "first" => gen.calls = 1
        /\ gen.pc # "first" =>
              LET counted == gen.first.kind = "message" /\ HasTokens(FirstDraft)
                  inside == counted /\ InSpecWindow(Tokens(FirstDraft), gen.target)
              IN  /\ gen.calls = 2 <=> (counted /\ ~inside)
                  /\ inside => /\ gen.pc = "returned"
                               /\ gen.title = Field(FirstDraft, "title")
                               /\ gen.content = Field(FirstDraft, "content")

\* C2 witness: a run has returned after issuing the retry
C2_Witness ==
    /\ gen.pc = "returned"
    /\ gen.calls = 2
    /\ HasTokens(FirstDraft)
    /\ ~InSpecWindow(Tokens(FirstDraft), gen.target)

\* C3: a run that issued the retry and returns, returns the retry's title and
\* content if the retry answer parsed and its token count is inside the
\* window, and the title and content of the first draft in every other case.
C3_RetryAdoptedIffInWindow ==
    (gen.pc = "returned" /\ gen.calls = 2) =>
        IF /\ gen.retry.kind = "message"
           /\ HasTokens(RetryDraft)
           /\ InSpecWindow(Tokens(RetryDraft), gen.target)
        THEN /\ gen.title = Field(RetryDraft, "title")
             /\ gen.content = Field(RetryDraft, "content")
        ELSE /\ gen.title = Field(FirstDraft, "title")
             /\ gen.content = Field(FirstDraft, "content")

\* C3 witness: the retry's draft, inside the window and under another title
\* than the first draft's, has been returned
C3_Witness ==
    /\ gen.pc = "returned"
    /\ gen.calls = 2
    /\ HasTokens(RetryDraft)
    /\ InSpecWindow(Tokens(RetryDraft), gen.target)
    /\ gen.content = Field(RetryDraft, "content")
    /\ gen.title # Field(FirstDraft, "title")

\* C4: once the first draft parsed with a count outside the window (the retry
\* was issued), the run does not end in an exception, whatever the retry call
\* does.
C4_RetryNeverThrows ==
    gen.calls = 2 => gen.pc # "thrown"

-----------------------------------------------------------------------------
(* Claims about the JSON extractor *)

\* the text holds one { and, after it, one }, and between them one member
\* list the extractor of the agent can read (the GenerationAgent also with
\* escaped quotes or a raw line break, and with control characters around
\* it) and otherwise only whitespace
SingleObject(text, agent) ==
    /\ Cardinality({i \in 1..Len(text) : text[i] = TOpen}) = 1
    /\ Cardinality({i \in 1..Len(text) : text[i] = TClose}) = 1
    /\ FirstOpen(text) < LastClose(text)
    /\ Cardinality({i \in (FirstOpen(text) + 1)..(LastClose(text) - 1) :
                       text[i].t = "body"}) = 1
    /\ \A i \in (FirstOpen(text) + 1)..(LastClose(text) - 1) :
          \/ text[i].t = "body" /\ text[i].q \in (IF agent = "GenerationAgent"
                                                   THEN {"ok", "esc", "nl"} ELSE {"ok"})
          \/ text[i].t \in (IF agent = "GenerationAgent" THEN {"sp", "nl", "ctl"}
                            ELSE {"sp", "nl"})

\* the fields that member list denotes
ObjectOf(text) ==
    LET b == text[CHOOSE i \in (FirstOpen(text) + 1)..(LastClose(text) - 1) :
                     text[i].t = "body"]
    IN  IF b.q = "nl" THEN [b.f EXCEPT !["content"] = FuseWords(@)] ELSE b.f

\* the fields the extractor of the agent requires under the context
RequiredPresent(f, agent, context) ==
    LET has(n) == n \in DOMAIN f /\ Truthy(f[n])
    IN  /\ (agent = "ContentAgent" \/ context \in {"Content", "SEO"}) =>
              has("title") /\ has("content")
        /\ (agent = "GenerationAgent" /\ context = "SEO") =>
              "seo_score" \in DOMAIN f /\ f["seo_score"].ty = "num"

-----------------------------------------------------------------------------
(* Claims about the summarization *)

\* the type the research-summary schema gives each field
SchemaType(n) ==
    IF n \in {"title", "url", "source_authority"} THEN "str"
    ELSE IF n = "relevance_score" THEN "num"
    ELSE "arr"

\* C6: summarizeWithAttribution returns null unless the answer parses as an
\* object that has every field of the schema with its type, and every field
\* of a summary it returns is the answer's: none is a filled-in default.
C6_NullUnlessComplete ==
    (summ.pc = "done" /\ summ.result # Null) =>
        LET parsed == JSONparse(cleanJSONResponse(summ.answer.text))
        IN  /\ parsed.kind = "object"
            /\ \A n \in SummaryFields :
                  /\ n \in DOMAIN parsed.f
                  /\ parsed.f[n].ty = SchemaType(n)
                  /\ summ.result[n] = parsed.f[n]


-----------------------------------------------------------------------------
(* Claims about the search fan-out *)

Failed(outcome) == outcome.error

\* the hits, in plan order, of the queries from q on that did not fail: the
\* entries of their organic_results that are not null and, unless linkless
\* hits count, have a link
RECURSIVE HitsOfSucceeded(_, _, _)
HitsOfSucceeded(answers, q, linkless) ==
    IF q > Len(answers) THEN <<>>
    ELSE LET own == IF Failed(answers[q]) THEN <<>> ELSE answers[q].organic
             kept == [i \in 1..Len(own) |->
                        IF own[i].isNull \/ (own[i].link.id = 0 /\ ~linkless)
                        THEN <<>> ELSE <<own[i]>>]
         IN  Flat(kept) \o HitsOfSucceeded(answers, q + 1, linkless)

\* C8 (as stated): the fan-out always completes, and the hits passed on are
\* exactly the hits of the queries that did not fail, whichever queries fail.
C8_ExactlyHitsOfSucceeded ==
    fanout.pc = "done" =>
        fanout.results = HitsOfSucceeded(fanout.answers, 1, TRUE)

\* C8 (amended): a query that fails or has no results contributes nothing
\* and does not abort the batch; the hits passed on are, in plan order, the
\* hits of the queries that did not fail, of which the simplified class
\* keeps only those that have a link.
C8_HitsOfSucceededWithLink ==
    fanout.pc = "done" =>
        fanout.results = HitsOfSucceeded(fanout.answers, 1, fanout.class = "enhanced")

\* C8 witness: a batch in which one query failed and a later one succeeded
\* has been joined, and the hits of the one that succeeded were passed on
C8_Witness ==
    /\ fanout.pc = "done"
    /\ Len(fanout.answers) = MaxQueries
    /\ Failed(fanout.answers[1])
    /\ fanout.answers[2] = Organic(<<>>)
    /\ ~Failed(fanout.answers[MaxQueries])
    /\ fanout.results = <<QueryHit(MaxQueries)>>


-----------------------------------------------------------------------------
(* Claims about the generate route *)

\* C9: once research has returned an empty list the request goes on to
\* content generation: it is waiting for the draft or has had generation
\* settle, and is never answered without generation having been called.
C9_EmptyResearchProceeds ==
    (route.pc # "off" /\ route.researched /\ route.researchSummaries = <<>>) =>
        \/ route.pc = "generateContent"
        \/ route.generation # "none"

-----------------------------------------------------------------------------
(* Claims about the cache key *)

\* C11: generateCacheKey gives an input and every variation of it by letter
\* case, by leading or trailing whitespace of the topic or of a keyword, and
\* by the order of the keywords, the same key.
C11_KeyOfNormalizedInputs ==
    keying.pc = "done" => keying.key = keying.variedKey

\* C11 witness: the keys of an input and of a variation with another topic
\* text and its keywords in another order have been computed
C11_Witness ==
    /\ keying.pc = "done"
    /\ keying.variedTopic # keying.topic
    /\ Len(keying.keywords) = 3
    /\ keying.variedKeywords[1] = keying.keywords[3]
    /\ keying.variedKeywords[3] = keying.keywords[1]

-----------------------------------------------------------------------------
(* Claims about the cache read *)

\* C12: a read that finds an entry of age now - timestamp >= ttl is a miss
\* and takes the entry out of the cache, so that it is never in the cache
\* again; a read that finds an entry of age < ttl returns its summaries and
\* leaves it in place.
C12_ExpiredReadEvicts ==
    \A c \in Callers :
        LET call == rcall[c]
        IN  (call.pc # "idle" /\ call.seen # NoEntry) =>
                IF call.at - call.seen.timestamp >= call.seen.ttl
                THEN /\ call.origin # "cache"
                     /\ call.pc = "searching" => call.key \notin DOMAIN researchCache
                     /\ CacheGet(researchCache, call.key) # call.seen
                ELSE /\ call.origin = "cache"
                     /\ call.pc = "done"
                     /\ call.result = call.seen.summaries
                     /\ CacheGet(researchCache, call.key) = call.seen

\* C12 witness: a read has found an entry of age exactly ttl, missed, and
\* left the cache without it
C12_Witness ==
    \E c \in Callers :
        /\ rcall[c].pc = "searching"
        /\ rcall[c].seen # NoEntry
        /\ rcall[c].at - rcall[c].seen.timestamp = rcall[c].seen.ttl
        /\ rcall[c].key \notin DOMAIN researchCache

-----------------------------------------------------------------------------
(* Claims about the process *)

\* C13: a request that calls researchTopic after an earlier request of the
\* process has cached a result for the same key, and within the TTL of that
\* entry, is served from the cache and makes no external call.
C13_CacheSharedAcrossRequests ==
    process.pc # "off" =>
        \A q \in 1..MaxRequests, r \in 1..MaxRequests :
            LET earlier == process.requests[q]
                later == process.requests[r]
            IN  ( /\ later.pc # "none"
                  /\ q \in later.after
                  /\ later.key = earlier.key
                  /\ later.at - earlier.doneAt < CACHE_TTL )
                => later.origin = "cache"

-----------------------------------------------------------------------------
(* Claims about the search plan *)

\* C14: the list generateStrategicQueries returns has no two equal queries,
\* and a second call with the same topic and keywords returns the same list
\* in the same order.
C14_QueriesDistinctAndStable ==
    /\ plan.pc \in {"planned", "done"} =>
          \A i \in 1..Len(plan.queries), j \in 1..Len(plan.queries) :
              i # j => plan.queries[i] # plan.queries[j]
    /\ plan.pc = "done" => plan.again = plan.queries

-----------------------------------------------------------------------------
(* Claims about the ranking of sources *)

ScoreOf(hit) == calculateSourceScore(hit, RankTopic, 0)

Ranked == ranking.pc \in {"ranked", "extracting"}

\* the number of input hits scoring above n
Above(n) == Cardinality({i \in 1..Len(ranking.results) : ScoreOf(ranking.results[i]) > n})

\* C15: when at least 3 input hits score above 25 every returned hit scores
\* above 25; when fewer do, the filter is applied once more with threshold 15
\* and every input hit above 15 is eligible (all of them are returned up to the
\* cap of 6); no returned hit scores 15 or less.
C15_ThresholdRelaxedOnce ==
    Ranked =>
        /\ Above(25) >= 3 =>
              \A i \in 1..Len(ranking.sources) : ScoreOf(ranking.sources[i]) > 25
        /\ Above(25) < 3 => Len(ranking.sources) = Min(Above(15), 6)
        /\ \A i \in 1..Len(ranking.sources) : ScoreOf(ranking.sources[i]) > 15

\* C15 witness: a ranked batch with fewer than 3 hits above 25, a hit at 15 or
\* below that was left out and a hit between 16 and 25 that was returned
C15_Witness ==
    /\ Ranked
    /\ Above(25) < 3
    /\ Above(15) < Len(ranking.results)
    /\ \E i \in 1..Len(ranking.sources) : ScoreOf(ranking.sources[i]) <= 25

\* C16: the returned list is in non-increasing score order, hits of equal
\* score are in their input order, the list has at most 8 hits, and at most 8
\* extractions are in flight.
C16_SortedStableAtMost8 ==
    Ranked =>
        /\ \A i \in 1..Len(ranking.sources), j \in 1..Len(ranking.sources) :
              i < j =>
                 /\ ScoreOf(ranking.sources[i]) >= ScoreOf(ranking.sources[j])
                 /\ ScoreOf(ranking.sources[i]) = ScoreOf(ranking.sources[j])
                       => ranking.sources[i].link.id < ranking.sources[j].link.id
        /\ Len(ranking.sources) <= 8
        /\ ranking.inflight <= 8

\* C16 witness: more than 8 hits scored above 25, 8 were returned with ties
\* and with different scores among them, and their extractions are in flight
C16_Witness ==
    /\ ranking.pc = "extracting"
    /\ Above(25) > 8
    /\ ranking.inflight = 8
    /\ \E i \in 1..7 : ScoreOf(ranking.sources[i]) = ScoreOf(ranking.sources[i + 1])
    /\ \E i \in 1..7 : ScoreOf(ranking.sources[i]) > ScoreOf(ranking.sources[i + 1])
    /\ \E i \in 1..Len(ranking.results) : \E j \in 1..(i - 1) :
          ScoreOf(ranking.results[j]) < ScoreOf(ranking.results[i])

\* C17: the hit of a host of authority 95 published 10 days ago scores
\* strictly higher than the hit with the same title and snippet of a host
\* absent from the table published 3 years ago, and is ranked before it.
C17_RecentAuthorityOutranks ==
    /\ ranking.pc \in {"scored", "ranked"} => ranking.scores[2] > ranking.scores[1]
    /\ ranking.pc = "ranked" =>
          /\ Len(ranking.sources) >= 1
          /\ ranking.sources[1].link.id = 2

-----------------------------------------------------------------------------
(* Claims about the SEO analysis *)

\* C18 as stated: the text with the keyword at 0% scores strictly lower than
\* the same text with the keyword at 1.5%, whatever the shared readability
\* and number of internal links.
C18_ZeroDensityStrictlyLower ==
    seo.pc = "rerated" => seo.before < seo.seoScore

\* C18: the text with the keyword at 0% never scores higher than the same text
\* with the keyword at 1.5%, and scores strictly lower whenever the score of
\* the 1.5% text is above the floor 0.
C18_ZeroDensityLowerAboveFloor ==
    seo.pc = "rerated" =>
        /\ seo.before <= seo.seoScore
        /\ seo.seoScore > 0 => seo.before < seo.seoScore

\* C18 witness: both texts were scored, the 1.5% text above the floor
C18_Witness ==
    /\ seo.pc = "rerated"
    /\ seo.seoScore > 0
    /\ seo.before < seo.seoScore
    /\ Len(seo.internalLinks) > 0

\* C19: the analysis analyzeContent returns has a field seo_score, an integer
\* in 0..100.
C19_AnalysisCarriesScore ==
    seo.pc \in {"analysed", "done"} =>
        /\ "seo_score" \in DOMAIN seo.analysis
        /\ seo.analysis.seo_score \in 0..100

\* a keyword is a link opportunity of a URL when it occurs in the content, no
\* existing link text contains it, and a word of the path of the URL is
\* within edit distance 2 of it
LinkOpportunity(keyword, url) ==
    /\ Measure(seo.content, toLowerCase(keyword)) > 0
    /\ \A i \in 1..Len(seo.existing) :
          ~includes(toLowerCase(seo.existing[i].text), toLowerCase(keyword))
    /\ \E w \in 1..Len(urlWords(url)) :
          Levenshtein(toLowerCase(keyword), toLowerCase(urlWords(url)[w])) <= 2

\* C20: every keyword that is a link opportunity of some existing internal
\* URL is in internal_links with a URL and the rounded relevance of that URL,
\* and a second call returns the same analysis.
C20_OpportunitiesReported ==
    /\ seo.pc \in {"analysed", "done"} =>
          \A k \in 1..Len(seo.options.target_keywords) :
              (\E i \in 1..Len(seo.existing) :
                    LinkOpportunity(seo.options.target_keywords[k], seo.existing[i].url))
              => \E n \in 1..Len(seo.analysis.internal_links) :
                    LET link == seo.analysis.internal_links[n]
                    IN  /\ link.text = seo.options.target_keywords[k]
                        /\ \E i \in 1..Len(seo.existing) : link.url = seo.existing[i].url
                        /\ link.relevance =
                              calculateRelevanceScore(seo.options.target_keywords[k], link.url)
    /\ seo.pc = "done" => seo.again = seo.analysis

-----------------------------------------------------------------------------
(* Claims about overlapping research calls *)

\* both calls have returned a result of their own pipeline for the same key,
\* and each started before the other returned
BothRanOverlapping ==
    /\ \A c \in OverlapCallers : rcall[c].pc = "done" /\ rcall[c].origin = "pipeline"
    /\ rcall["r1"].key = rcall["r2"].key
    /\ rcall["r1"].at <= rcall["r2"].doneAt
    /\ rcall["r2"].at <= rcall["r1"].doneAt

\* C21: two overlapping calls for one uncached key are not coalesced: when
\* both have returned, each has dispatched its own searches and its own
\* summarizations, and the cache holds for the key the entry of a call that
\* returned last, with that call's summaries and time.
C21_OverlapNotCoalesced ==
    BothRanOverlapping =>
        /\ \A c \in OverlapCallers :
              /\ rcall[c].seen = NoEntry
              /\ rcall[c].searchCalls = PlanLen
              /\ rcall[c].modelCalls > 0
        /\ \E c \in OverlapCallers :
              /\ \A d \in OverlapCallers : rcall[d].doneAt <= rcall[c].doneAt
              /\ CacheGet(researchCache, rcall[c].key) =
                    [topic |-> rcall[c].key, timestamp |-> rcall[c].doneAt,
                     ttl |-> CACHE_TTL, summaries |-> rcall[c].result]

\* C21 witness: both calls missed and ran, the second returned later than the
\* first with other summaries, and its entry is the one in the cache
C21_Witness ==
    /\ BothRanOverlapping
    /\ rcall["r1"].doneAt < rcall["r2"].doneAt
    /\ rcall["r1"].result # rcall["r2"].result
    /\ CacheGet(researchCache, rcall["r2"].key).summaries = rcall["r2"].result
    /\ Cardinality(DOMAIN researchCache) = 1

-----------------------------------------------------------------------------
(* Claims about the generation controller, continued *)

\* C22: the first draft is accepted exactly when its word count n satisfies
\* 95 x target <= 100 x n <= 105 x target.
C22_WindowIsFivePercent ==
    gen.pc \in {"returned", "retry"} =>
        (gen.accepted <=> /\ 95 * gen.target <= 100 * gen.count
                          /\ 100 * gen.count <= 105 * gen.target)

\* C22 witness: a draft at the upper edge of the window of a target whose
\* twentieth is not whole was accepted
C22_Witness ==
    /\ gen.pc = "returned"
    /\ gen.accepted
    /\ gen.target % 20 # 0
    /\ gen.target > 20
    /\ gen.count = gen.target + Tolerance(gen.target)

Unparsed(answer, draft) == answer.kind = "reject" \/ NoResult(answer) \/ draft = ParsedNull

\* C23: a run ends in an exception only after both attempts: the first answer
\* gave no parseable draft, the retry was issued, and the retry gave none
\* either.
C23_FailsOnlyAfterRetry ==
    gen.pc = "thrown" =>
        /\ Unparsed(gen.first, FirstDraft)
        /\ gen.calls = 2
        /\ Unparsed(gen.retry, RetryDraft)

\* the content schema: a title and a content that are not empty
PassedContentSchema(draft) ==
    /\ draft # ParsedNull
    /\ Truthy(Field(draft, "title"))
    /\ Truthy(Field(draft, "content"))

\* C24: every parsed value the run uses, the first draft once the run has
\* gone past it and the retry draft once the run has ended, has a non-empty
\* title and a non-empty content, and so has the draft the run returns.
C24_DraftsPassContentSchema ==
    /\ (gen.pc \in {"retry", "returned"} \/ (gen.pc = "thrown" /\ gen.calls = 2))
          => PassedContentSchema(FirstDraft)
    /\ (gen.pc \in {"returned", "thrown"} /\ gen.calls = 2 /\ ~Unparsed(gen.retry, RetryDraft))
          => PassedContentSchema(RetryDraft)
    /\ gen.pc = "returned" => Truthy(gen.title) /\ Truthy(gen.content)

-----------------------------------------------------------------------------
(* Claims about the source score *)

\* the four terms of the score of a hit, each as the specification words it
AuthorityTerm(hit) ==
    IF DomainScore(hit.link) # 0 THEN DomainScore(hit.link)
    ELSE IF (hit.link.has \cap businessTechDomains) # {} THEN 50
    ELSE 0

RecencyTerm(hit) ==
    IF hit.date = NoDate THEN 0
    ELSE IF hit.date < 365 THEN 20
    ELSE IF hit.date < 730 THEN 10
    ELSE 0

\* the topic tokens longer than 2 characters that overlap a token of the title
Overlapping(hit, topic) ==
    {i \in 1..Len(TopicWords(topic)) :
        /\ hit.hasTitle
        /\ \E j \in 1..Len(split(toLowerCase(hit.title))) :
              \/ includes(split(toLowerCase(hit.title))[j], TopicWords(topic)[i])
              \/ includes(TopicWords(topic)[i], split(toLowerCase(hit.title))[j])}

TitleTerm(hit, topic) ==
    IF 10 * Cardinality(Overlapping(hit, topic)) >= 3 * Len(TopicWords(topic)) THEN 20
    ELSE IF 10 * Cardinality(Overlapping(hit, topic)) >= Len(TopicWords(topic)) THEN 10
    ELSE 0

SnippetTerm(hit) == IF hit.snippetLen > 100 THEN 10 ELSE 0

\* C25: the score of every hit is min(100, authority + recency + title +
\* snippet), with no other term.
C25_ScoreIsSumOfFourTerms ==
    ranking.pc \in {"scored", "ranked"} =>
        \A i \in 1..Len(ranking.results) :
            ranking.scores[i] =
                Min(100, AuthorityTerm(ranking.results[i]) + RecencyTerm(ranking.results[i])
                           + TitleTerm(ranking.results[i], ranking.topic)
                           + SnippetTerm(ranking.results[i]))

-----------------------------------------------------------------------------
(* Claims about the aggregate SEO score *)

\* the score with the density band and the readability target of the call's
\* options, doubled until it is rounded
ConfiguredScore(content, options, internalLinks) ==
    LET lo == OptionOr(options, "min_keyword_density", DEFAULT_MIN_KEYWORD_DENSITY)
        hi == OptionOr(options, "max_keyword_density", DEFAULT_MAX_KEYWORD_DENSITY)
        target == OptionOr(options, "readability_target", DEFAULT_READABILITY_TARGET)
        keywordDensity == calculateKeywordDensity(content, options.target_keywords)
        outside == {i \in 1..Len(keywordDensity) :
                       keywordDensity[i].density < lo \/ keywordDensity[i].density > hi}
        shortfall == Max(0, target - content.readability)
        links == IF Len(internalLinks) = 0 THEN 15
                 ELSE IF Len(internalLinks) < 3 THEN 5 ELSE 0
        high == Len(SelectSeq(generateSEORecommendations(content, keywordDensity,
                                  content.readability, internalLinks, options),
                              HighPriority))
    IN  Max(0, (200 - 20 * Cardinality(outside) - shortfall - 2 * links - 20 * high + 1) \div 2)

\* C26: the aggregate score is max(0, 100 - 10 for each keyword outside the
\* density band - the readability shortfall penalty - the link penalty - 10
\* for each high-priority recommendation), the band and the target being the
\* configured values that the recommendations of that call use.
C26_ScoreUsesConfiguredBand ==
    seo.pc \in {"rated", "rerated"} =>
        seo.seoScore = ConfiguredScore(seo.content, seo.options, seo.internalLinks)

-----------------------------------------------------------------------------
(* Claims about the order of the search hits *)

\* the entries of the answer to one query that the class keeps, in the
\* provider's order
KeptHits(v, answer) ==
    LET organic == IF answer.error THEN <<>> ELSE answer.organic
    IN  IF v = "simple" THEN SelectSeq(organic, HasLink) ELSE SelectSeq(organic, NotNull)

\* C27: the hits are handed on only after every dispatched search has
\* settled, and they are ordered by the position of their query in the plan
\* and then by the provider's order, whatever the order of completion.
C27_HitsInPlanOrder ==
    fanout.pc = "done" =>
        /\ \A q \in 1..Len(fanout.answers) : fanout.answers[q] # Pending
        /\ Len(fanout.arrived) = Len(fanout.answers)
        /\ fanout.results =
               Flat([q \in 1..Len(fanout.answers) |-> KeptHits(fanout.class, fanout.answers[q])])

\* C27 witness: the second query settled before the first, both brought
\* hits, and the hit of the first query comes first.
C27_Witness ==
    /\ fanout.pc = "done"
    /\ Len(fanout.arrived) >= 2
    /\ fanout.arrived[1] = 2
    /\ fanout.answers[1] = Organic(<<QueryHit(1), NullHit, hNoLink>>)
    /\ fanout.answers[2] = Organic(<<QueryHit(2)>>)
    /\ fanout.results[1] = QueryHit(1)
    /\ fanout.results[Len(KeptHits(fanout.class, fanout.answers[1])) + 1] = QueryHit(2)

-----------------------------------------------------------------------------
(* Claims about the isolation of cache keys *)

\* the step is taken by a researchTopic call whose cache key is k
StepOfKey(k) == \E c \in Callers : rcall'[c] # rcall[c] /\ rcall'[c].key = k

\* C28: an unexpired cache entry is neither removed nor changed by a step of
\* a researchTopic call for a different key, be it a hit, a miss or a failed
\* run.
C28_OtherKeysUntouched ==
    [][\A k \in DOMAIN researchCache :
          (CacheFresh(researchCache[k], now) /\ ~StepOfKey(k)) =>
              /\ k \in DOMAIN researchCache'
              /\ researchCache'[k] = researchCache[k]]_vars

-----------------------------------------------------------------------------
(* Claims about the attribution of summaries *)

\* the string of a link: the strings of the answers are known by a number,
\* and the string that spells a link is known by the id of the link
LinkText(link) == Str(link.id)

\* C29: a summary made from a search hit carries the link of that hit as its
\* url and a relevance_score in 0..100, whatever the model wrote.
C29_SummaryAttributedToHit ==
    (summ.pc = "done" /\ ~summ.result.isNull) =>
        /\ summ.result.url = LinkText(hTop.link)
        /\ summ.result.relevance_score.ty = "num"
        /\ summ.result.relevance_score.x \in 0..100

-----------------------------------------------------------------------------
(* Claims about the request queue of OpenAIService *)

Executing == {r \in 1..Len(service.requests) : service.requests[r].phase \in {"api", "track"}}

\* at most one request executes, requests start in the order of their
\* enqueueing, and nothing is queued or pending when processing is false
Serialized ==
    /\ Cardinality(Executing) <= 1
    /\ \A i \in 1..Len(service.order) : service.order[i] = i
    /\ ~service.processing =>
          /\ service.requestQueue = <<>>
          /\ \A r \in 1..Len(service.requests) : service.requests[r].promise # "pending"

\* C30: the service serializes its requests, whatever the interleaving of
\* generateContent and generateContentStream calls with the drain of the
\* queue: at most one request executes at a time, requests start in enqueue
\* order, and every enqueued request is eventually started and its promise
\* resolved or rejected.
C30_RequestsSerialized ==
    /\ []Serialized
    /\ \A r \in 1..MaxQueued :
          (r <= Len(service.requests)) ~>
              (r <= Len(service.order) /\ service.requests[r].promise # "pending")

\* C30 witness: the second and third request were enqueued while the queue
\* was being drained, and all three have settled, one of them rejected.
C30_Witness ==
    /\ Len(service.requests) = 3
    /\ service.requests[2].busy /\ service.requests[3].busy
    /\ service.requests[1].kind = "content" /\ service.requests[2].kind = "stream"
    /\ service.requests[1].promise = "resolved"
    /\ service.requests[2].promise = "rejected"
    /\ service.requests[3].promise = "resolved"
    /\ ~service.processing

=============================================================================
